---- MODULE Spec2Model ----
(***************************************************************************)
(* Model of the monitoring-engine package: ConnectionManager               *)
(* (src/connection.rs), AlertManager (src/alerts/mod.rs) and the           *)
(* MonitoringEngine lifecycle with its block-subscription task             *)
(* (src/lib.rs).                                                           *)
(*                                                                         *)
(* The public async operations are split at their accesses to shared       *)
(* memory: one action per access (an atomic load or store, or a critical   *)
(* section of an RwLock that contains no await).  A write guard that is    *)
(* held across a further access or across an await is modelled by an       *)
(* explicit lock variable.  A call returns in the action of its last       *)
(* shared access.  Three specifications are given: SpecConn (the           *)
(* ConnectionManager with concurrent callers), SpecAlert (the AlertManager *)
(* with concurrent callers) and Spec (the engine).                         *)
(***************************************************************************)
EXTENDS Naturals, Integers, Sequences, FiniteSets, TLC

\* ---------------------------------------------------------------- bounds
NumThreads == 2        \* concurrent callers of the public API
MaxTasks == 1          \* subscription tasks of each kind that can be spawned
MaxAttempts == 2       \* largest max_attempts handed to connect_with_retry
MaxBlocks == 1         \* blocks the subscriptions deliver
MaxTxs == 1            \* extrinsics per block
NumDetectors == 2      \* registered detectors that are run on a transaction
MaxHistory == 2        \* alerts kept before the model stops accepting more
MaxLimit == 2          \* largest limit handed to get_recent_alerts
MaxEvents == 4         \* events of a context
MaxBatch == 3          \* contexts of a batch, transactions of a block
MaxRecent == 4         \* transactions a front-running history receives
MaxBudget == 66        \* max_attempts of the long connect_with_retry
MaxSwaps == 5          \* swap events after the borrow and the repayment of a loan
MaxPending == 3        \* length of that history up to which the mempool
                       \* monitor is called
MaxAlerts == 3         \* reported detections process_transaction counts
                       \* one by one
MaxCalls == 2          \* concurrent analyze_transaction calls of a thread

\* ------------------------------------------------------- program constants
BackoffBase == 2       \* 2_u64.pow(attempt)
BackoffCap == 60       \* std::cmp::min(.., 60)
U64Bits == 64          \* width of 2_u64
\* confidences are counted in thousandths (0.725 is 725)
ReportFloor == 500     \* result.confidence > 0.5
CriticalAt == 900      \* confidence >= 0.9
HighAt == 750          \* confidence >= 0.75
MediumAt == 600        \* confidence >= 0.6

Threads == 1..NumThreads
Tasks == (NumThreads + 1)..(NumThreads + MaxTasks)
\* the task slots of an engine that is started, stopped and started
\* again: one more than a single start() fills
RestartTasks == (NumThreads + 1)..(NumThreads + MaxTasks + 1)
Procs == Threads \cup RestartTasks
Detectors == 1..NumDetectors

None == "None"
Some == "Some"

\* AlertSeverity derives Ord in declaration order: Low < Medium < High < Critical
Low == 0
Medium == 1
High == 2
Critical == 3
AlertSeverity == {Low, Medium, High, Critical}

VARIABLES
    \* ConnectionManager
    client,              \* Option<OnlineClient>: None or Some
    client_lock,         \* holder of the write guard of `client`, 0 = free
    reconnect_attempts,  \* AtomicU32
    should_reconnect,    \* AtomicBool
    \* AlertManager
    min_severity,        \* configured minimum severity
    webhook_url,         \* Option<String>: None or Some
    alert_history,       \* Vec<Alert>, oldest first
    history_lock,        \* holder of the write guard of `alert_history`, 0 = free
    \* MonitorConfig and EngineState
    config,              \* the fields of MonitorConfig that start() reads
    is_running,
    blocks_processed,
    transactions_analyzed,
    alerts_triggered,
    event_tasks,         \* event-subscription tasks spawned so far
    \* the calling threads and the spawned tasks
    pc,                  \* position of each process
    op,                  \* the public operation a thread is executing
    max_attempts,        \* argument of connect_with_retry
    attempt,             \* local `attempt` of connect_with_retry
    backoff_secs,        \* local `backoff_secs` of the last sleep
    alert,               \* argument `alert` of the trigger_alert in progress
    txs_left,            \* transactions of its block a task has still to process
    result,              \* value returned by the last finished call
    prev,                \* the operation that returned `result` (idle threads)
    \* history variables (not program state)
    made,                \* connect() calls made by the current (or last
                         \* finished) connect / connect_with_retry call
    was_running,         \* is_running as the current stop() found it
    stopped              \* a stop() has returned, no start() was in progress
                         \* then and none was called since

VARIABLES
    \* the detectors and the block pipeline
    contexts,            \* the TransactionContexts handed to the detectors:
                         \* a batch, or the contexts of the block in process
    indicators,          \* indicators extracted from a context's event data
    detector,            \* name() of the detector the contexts are handed to
    detections,          \* the DetectionResults of the last analysis
    recent_transactions, \* FrontRunningDetector.recent_transactions
    tx_pos,              \* position in the block of the next transaction
    uuids,               \* Uuid::new_v4() values drawn so far
    detector_stats,      \* EngineState.detector_stats: detections of each key
    block_events,        \* the events of the block in process, as
                         \* extract_events returns them
    database,            \* MonitoringEngine.database: None or Some client,
                         \* whether its inserts fail, and the rows it holds
    extraction,          \* an extract_from_block call: the extrinsics of its
                         \* block, and what it returned (none yet, or one value)
    history_calls,       \* the FrontRunningDetector::analyze_transaction call
                         \* of each thread: its position, its transaction,
                         \* the calls the thread has made, and (history, not
                         \* program state) recent_transactions as the call
                         \* found it under its write guard
    \* history variable (not program state)
    submitted            \* every alert handed to trigger_alert, in order

detVars == <<contexts, indicators, detector, detections, recent_transactions,
             tx_pos, uuids, detector_stats, block_events, database,
             extraction, history_calls, submitted>>
\* what no operation of the engine's public API writes
cfgVars == <<config, detVars>>

connVars == <<client, client_lock, reconnect_attempts, should_reconnect>>
alertVars == <<min_severity, webhook_url, alert_history, history_lock>>
counters == <<blocks_processed, transactions_analyzed, alerts_triggered>>
engVars == <<cfgVars, is_running, counters, event_tasks, txs_left, stopped>>
procVars == <<pc, op, max_attempts, attempt, backoff_secs, alert, result, prev,
              made, was_running>>
vars == <<connVars, alertVars, engVars, procVars>>

ConnState == <<client, reconnect_attempts, should_reconnect>>

\* an Alert, reduced to the field the AlertManager reads
NoAlert == [severity |-> Low]
Alerts == [severity : AlertSeverity]

Min(a, b) == IF a <= b THEN a ELSE b

\* std::cmp::min(b.pow(e), cap) for a power that does not overflow,
\* computed without the power itself: min(b^e, cap) = min(b * min(b^(e-1),
\* cap), cap)
RECURSIVE PowMin(_, _, _)
PowMin(b, e, cap) ==
    IF e = 0 THEN Min(1, cap)
    ELSE IF PowMin(b, e - 1, cap) = cap THEN cap
    ELSE Min(b * PowMin(b, e - 1, cap), cap)

\* 2_u64.pow(k) overflows: 2^k does not fit 64 bits
PowOverflows(k) == k >= U64Bits

\* connection.rs:72  std::cmp::min(2_u64.pow(attempt), 60); a power that
\* overflows wraps to 0 when overflow checks are off
Backoff(k) ==
    IF PowOverflows(k) THEN Min(0, BackoffCap)
    ELSE PowMin(BackoffBase, k, BackoffCap)

\* ---------------------------------------------------------- call / return
\* A call of a public operation ends: the thread is idle again and holds
\* the returned value; the locals of the call are gone.
Return(t, res) ==
    /\ pc' = [pc EXCEPT ![t] = "idle"]
    /\ result' = [result EXCEPT ![t] = res]
    /\ prev' = [prev EXCEPT ![t] = op[t]]
    /\ op' = [op EXCEPT ![t] = "none"]
    /\ max_attempts' = [max_attempts EXCEPT ![t] = 0]
    /\ attempt' = [attempt EXCEPT ![t] = 0]
    /\ backoff_secs' = [backoff_secs EXCEPT ![t] = 0]
    /\ made' = [made EXCEPT ![t] =
                   IF op[t] \in {"connect", "connect_with_retry"} THEN @ ELSE 0]
    /\ was_running' = [was_running EXCEPT ![t] = FALSE]
    /\ alert' = [alert EXCEPT ![t] = NoAlert]

Goto(t, label) ==
    /\ pc' = [pc EXCEPT ![t] = label]
    /\ UNCHANGED <<op, max_attempts, attempt, backoff_secs, alert, result, prev,
                   made, was_running>>

\* An idle thread enters a public operation; its locals are initialised.
Enter(t, o, n, a, label) ==
    /\ pc[t] = "idle"
    /\ pc' = [pc EXCEPT ![t] = label]
    /\ op' = [op EXCEPT ![t] = o]
    /\ max_attempts' = [max_attempts EXCEPT ![t] = n]
    /\ attempt' = [attempt EXCEPT ![t] = 0]
    /\ backoff_secs' = [backoff_secs EXCEPT ![t] = 0]
    /\ alert' = [alert EXCEPT ![t] = a]
    /\ made' = [made EXCEPT ![t] = IF label = "connect_await" THEN 1 ELSE 0]
    /\ result' = [result EXCEPT ![t] = "none"]
    /\ prev' = [prev EXCEPT ![t] = "none"]
    /\ UNCHANGED was_running

\* ------------------------------------------------------ ConnectionManager
\* is_connected(): self.client.read().await.is_some()
is_connected == client = Some

\* connect() runs inside the loop of connect_with_retry
InRetry(t) == max_attempts[t] > 0

\* connect(): entry, up to the await of the timed connection attempt
Connect(t) ==
    /\ Enter(t, "connect", 0, NoAlert, "connect_await")
    /\ UNCHANGED <<connVars, alertVars, engVars>>

\* (mutant) a failed attempt is counted by connect() itself
ConnectFail_CountsAttempt(t) ==
    /\ pc[t] = "connect_await"
    /\ IF InRetry(t) THEN Goto(t, "retry_record")
       ELSE IF op[t] = "start" THEN Goto(t, "start_connfail")
       ELSE Return(t, "ConnectionError")
    /\ reconnect_attempts' = reconnect_attempts + 1
    /\ UNCHANGED <<client, client_lock, should_reconnect>>
    /\ UNCHANGED <<alertVars, engVars>>

\* connect(): the attempt timed out or failed at transport level; both are
\* mapped to Error::ConnectionError and `?` returns it before any store.
ConnectFail(t) ==
    /\ pc[t] = "connect_await"
    /\ \E kind \in {"timeout", "transport"} :
          IF InRetry(t) THEN Goto(t, "retry_record")
          ELSE IF op[t] = "start" THEN Goto(t, "start_connfail")
          ELSE Return(t, "ConnectionError")
    /\ UNCHANGED <<connVars, alertVars, engVars>>

\* connect(): the attempt succeeded; the write guard of `client` is taken
\* and the client stored.  The guard lives until the function returns.
ConnectStore(t) ==
    /\ pc[t] = "connect_await"
    /\ client_lock = 0
    /\ client_lock' = t
    /\ client' = Some
    /\ Goto(t, "connect_reset")
    /\ UNCHANGED <<reconnect_attempts, should_reconnect>>
    /\ UNCHANGED <<alertVars, engVars>>

\* (mutant) the counter is not reset on success
ConnectReset_NoReset(t) ==
    /\ pc[t] = "connect_reset"
    /\ client_lock = t
    /\ client_lock' = 0
    /\ IF op[t] = "start" THEN Goto(t, "start_blocks") ELSE Return(t, "Ok")
    /\ UNCHANGED <<client, reconnect_attempts, should_reconnect>>
    /\ UNCHANGED <<alertVars, engVars>>

\* connect(): reconnect_attempts.store(0), guard dropped, Ok(()) returned
\* (to connect_with_retry, which returns it, or to start())
ConnectReset(t) ==
    /\ pc[t] = "connect_reset"
    /\ client_lock = t
    /\ reconnect_attempts' = 0
    /\ client_lock' = 0
    /\ IF op[t] = "start" THEN Goto(t, "start_blocks") ELSE Return(t, "Ok")
    /\ UNCHANGED <<client, should_reconnect>>
    /\ UNCHANGED <<alertVars, engVars>>

\* connect_with_retry(n): entry; attempt = 0 and the first connect() is
\* called, or with n = 0 the loop is skipped and the Err after it returned
ConnectWithRetry(t, n) ==
    /\ IF n > 0
       THEN Enter(t, "connect_with_retry", n, NoAlert, "connect_await")
       ELSE /\ pc[t] = "idle"
            /\ result' = [result EXCEPT ![t] = "ConnectionError"]
            /\ prev' = [prev EXCEPT ![t] = "connect_with_retry"]
            /\ UNCHANGED <<pc, op, max_attempts, attempt, backoff_secs, alert,
                           made, was_running>>
    /\ UNCHANGED <<connVars, alertVars, engVars>>

\* (mutant) the counter is stored before `attempt` is incremented
RetryRecord_StoreBeforeIncrement(t) ==
    /\ pc[t] = "retry_record"
    /\ reconnect_attempts' = attempt[t]
    /\ IF attempt[t] + 1 >= max_attempts[t]
       THEN IF op[t] = "start" THEN Goto(t, "start_connfail")
            ELSE Return(t, "ConnectionError")
       ELSE \E checked \in IF PowOverflows(attempt[t] + 1)
                            THEN BOOLEAN ELSE {FALSE} :
            /\ pc' = [pc EXCEPT ![t] = IF checked THEN "panicked"
                                       ELSE "retry_sleep"]
            /\ attempt' = [attempt EXCEPT ![t] = @ + 1]
            /\ backoff_secs' = [backoff_secs EXCEPT ![t] =
                                   IF checked THEN @
                                   ELSE Backoff(attempt[t] + 1)]
            /\ UNCHANGED <<op, max_attempts, alert, result, prev, made, was_running>>
    /\ UNCHANGED <<client, client_lock, should_reconnect>>
    /\ UNCHANGED <<alertVars, engVars>>

\* connect_with_retry, Err arm: attempt += 1 and the counter is stored;
\* the error is returned when the budget is used up, else the backoff is
\* computed and the call sleeps.  When the power overflows, a build with
\* overflow checks panics there and a build without them goes on with the
\* wrapped value.
RetryRecord(t) ==
    /\ pc[t] = "retry_record"
    /\ reconnect_attempts' = attempt[t] + 1
    /\ IF attempt[t] + 1 >= max_attempts[t]
       THEN IF op[t] = "start" THEN Goto(t, "start_connfail")
            ELSE Return(t, "ConnectionError")
       ELSE \E checked \in IF PowOverflows(attempt[t] + 1)
                            THEN BOOLEAN ELSE {FALSE} :
            /\ pc' = [pc EXCEPT ![t] = IF checked THEN "panicked"
                                       ELSE "retry_sleep"]
            /\ attempt' = [attempt EXCEPT ![t] = @ + 1]
            /\ backoff_secs' = [backoff_secs EXCEPT ![t] =
                                   IF checked THEN @
                                   ELSE Backoff(attempt[t] + 1)]
            /\ UNCHANGED <<op, max_attempts, alert, result, prev, made, was_running>>
    /\ UNCHANGED <<client, client_lock, should_reconnect>>
    /\ UNCHANGED <<alertVars, engVars>>

\* connect_with_retry: the sleep is over, `attempt < max_attempts` holds and
\* connect() is called again
RetrySleep(t) ==
    /\ pc[t] = "retry_sleep"
    /\ attempt[t] < max_attempts[t]
    /\ pc' = [pc EXCEPT ![t] = "connect_await"]
    /\ made' = [made EXCEPT ![t] = @ + 1]
    /\ UNCHANGED <<op, max_attempts, attempt, backoff_secs, alert, result, prev,
                   was_running>>
    /\ UNCHANGED <<connVars, alertVars, engVars>>

\* set_reconnect(enabled)
SetReconnect(t, enabled) ==
    /\ pc[t] = "idle"
    /\ should_reconnect' = enabled
    /\ UNCHANGED <<client, client_lock, reconnect_attempts>>
    /\ UNCHANGED <<alertVars, engVars, procVars>>

\* disconnect(): entry
Disconnect(t) ==
    /\ Enter(t, "disconnect", 0, NoAlert, "disconnect_store")
    /\ UNCHANGED <<connVars, alertVars, engVars>>

\* (mutant) the reconnect flag is left as it is
DisconnectStore_KeepsFlag(t) ==
    /\ pc[t] = "disconnect_store"
    /\ Goto(t, "disconnect_clear")
    /\ UNCHANGED <<connVars, alertVars, engVars>>

\* disconnect(): should_reconnect.store(false)
DisconnectStore(t) ==
    /\ pc[t] = "disconnect_store"
    /\ should_reconnect' = FALSE
    /\ Goto(t, "disconnect_clear")
    /\ UNCHANGED <<client, client_lock, reconnect_attempts>>
    /\ UNCHANGED <<alertVars, engVars>>

\* disconnect(): write guard taken, client cleared, guard dropped; the call
\* returns (and with it stop(), which returns Ok(()) right after it)
DisconnectClear(t) ==
    /\ pc[t] = "disconnect_clear"
    /\ client_lock = 0
    /\ client' = None
    /\ Return(t, "Ok")
    /\ stopped' = IF op[t] = "stop" /\ \A u \in Threads : op[u] # "start"
                  THEN TRUE ELSE stopped
    /\ UNCHANGED <<client_lock, reconnect_attempts, should_reconnect>>
    /\ UNCHANGED <<cfgVars, is_running, counters, event_tasks, txs_left>>
    /\ UNCHANGED alertVars

\* ----------------------------------------------------------- AlertManager
RECURSIVE Reverse(_)
Reverse(q) == IF q = << >> THEN << >> ELSE Append(Reverse(Tail(q)), Head(q))

Take(q, n) == SubSeq(q, 1, Min(n, Len(q)))

\* (mutant) the oldest alerts are returned, oldest first
RecentAlerts_OldestFirst(h, limit) == Take(h, limit)

\* get_recent_alerts: history.iter().rev().take(limit).cloned().collect()
RecentAlerts(h, limit) == Take(Reverse(h), limit)

CountOf(h, sev) == Cardinality({i \in DOMAIN h : h[i].severity = sev})

\* get_alert_counts: one tally per severity
AlertCounts(h) ==
    [critical |-> CountOf(h, Critical), high |-> CountOf(h, High),
     medium |-> CountOf(h, Medium), low |-> CountOf(h, Low)]

\* AlertCounts::total
Total(c) == c.critical + c.high + c.medium + c.low

\* trigger_alert(alert): entry
TriggerAlert(t, a) ==
    /\ Enter(t, "trigger_alert", 0, a, "trigger_filter")
    /\ UNCHANGED <<connVars, alertVars, engVars>>

\* (mutant) the comparison is inverted
TriggerFilter_Inverted(p) ==
    /\ pc[p] = "trigger_filter"
    /\ IF alert[p].severity > min_severity
       THEN Return(p, "Dropped")
       ELSE Goto(p, "trigger_push")
    /\ UNCHANGED <<connVars, alertVars, engVars>>

\* trigger_alert: `if alert.severity < self.min_severity { return; }`
\* (the call returns (); the model records that it returned here)
TriggerFilter(p) ==
    /\ pc[p] = "trigger_filter"
    /\ IF alert[p].severity < min_severity
       THEN Return(p, "Dropped")
       ELSE Goto(p, "trigger_push")
    /\ UNCHANGED <<connVars, alertVars, engVars>>

\* trigger_alert: the write guard of the history is taken and the alert
\* pushed; without a webhook the guard is dropped and the call returns, with
\* one the POST is sent and awaited while the guard is still held.
TriggerPush(p) ==
    /\ pc[p] = "trigger_push"
    /\ history_lock = 0
    /\ Len(alert_history) < MaxHistory
    /\ alert_history' = Append(alert_history, alert[p])
    /\ IF webhook_url = None
       THEN Return(p, "Ok") /\ UNCHANGED history_lock
       ELSE Goto(p, "webhook") /\ history_lock' = p
    /\ UNCHANGED <<min_severity, webhook_url>>
    /\ UNCHANGED <<connVars, engVars>>

\* send_webhook: the POST is answered (2xx or another status) or fails;
\* every outcome is only logged.  The guard is dropped, the call returns.
WebhookDone(p) ==
    /\ pc[p] = "webhook"
    /\ history_lock = p
    /\ \E outcome \in {"success", "status", "error"} :
          /\ history_lock' = 0
          /\ Return(p, "Ok")
    /\ UNCHANGED <<min_severity, webhook_url, alert_history>>
    /\ UNCHANGED <<connVars, engVars>>

\* get_recent_alerts(limit): read guard taken, the value
\* RecentAlerts(alert_history, limit) of this state collected and returned
GetRecentAlerts(t, limit) ==
    /\ pc[t] = "idle"
    /\ history_lock = 0
    /\ result' = [result EXCEPT ![t] = "Ok"]
    /\ prev' = [prev EXCEPT ![t] = "get_recent_alerts"]
    /\ UNCHANGED <<pc, op, max_attempts, attempt, backoff_secs, alert, made,
                   was_running>>
    /\ UNCHANGED <<connVars, alertVars, engVars>>

\* get_alert_counts(): read guard taken, AlertCounts(alert_history) returned
GetAlertCounts(t) ==
    /\ pc[t] = "idle"
    /\ history_lock = 0
    /\ result' = [result EXCEPT ![t] = "Ok"]
    /\ prev' = [prev EXCEPT ![t] = "get_alert_counts"]
    /\ UNCHANGED <<pc, op, max_attempts, attempt, backoff_secs, alert, made,
                   was_running>>
    /\ UNCHANGED <<connVars, alertVars, engVars>>

\* clear_history(): entry
ClearHistory(t) ==
    /\ Enter(t, "clear_history", 0, NoAlert, "clear")
    /\ UNCHANGED <<connVars, alertVars, engVars>>

\* (mutant) only the oldest alert is removed
ClearWrite_DropsOldest(t) ==
    /\ pc[t] = "clear"
    /\ history_lock = 0
    /\ alert_history' = IF alert_history = << >> THEN << >> ELSE Tail(alert_history)
    /\ Return(t, "Ok")
    /\ UNCHANGED <<min_severity, webhook_url, history_lock>>
    /\ UNCHANGED <<connVars, engVars>>

\* clear_history: write guard taken, history.clear()
ClearWrite(t) ==
    /\ pc[t] = "clear"
    /\ history_lock = 0
    /\ alert_history' = << >>
    /\ Return(t, "Ok")
    /\ UNCHANGED <<min_severity, webhook_url, history_lock>>
    /\ UNCHANGED <<connVars, engVars>>

\* ------------------------------------------------------- MonitoringEngine
\* DetectionResult, reduced to the fields process_transaction reads;
\* the confidence is in thousandths
Confidences == {500, 550, 600, 750, 900}
DetectionResults == [detected : BOOLEAN, confidence : Confidences]

\* (mutant) a result at the floor is reported too
Reported_AtFloor(r) == r.detected /\ r.confidence >= ReportFloor

\* process_transaction: `result.detected && result.confidence > 0.5`
Reported(r) == r.detected /\ r.confidence > ReportFloor

\* process_transaction: severity from the confidence
SeverityOf(conf) ==
    IF conf >= CriticalAt THEN Critical
    ELSE IF conf >= HighAt THEN High
    ELSE IF conf >= MediumAt THEN Medium
    ELSE Low

\* trigger_alert as one call on the history h
Triggered(h, a) == IF a.severity < min_severity THEN h ELSE Append(h, a)

\* process_transaction: the loop over the detectors from detector d on;
\* each reported result triggers one alert
RECURSIVE AfterDetectors(_, _, _)
AfterDetectors(rs, d, h) ==
    IF d > NumDetectors THEN h
    ELSE AfterDetectors(rs, d + 1,
            IF Reported(rs[d])
            THEN Triggered(h, [severity |-> SeverityOf(rs[d].confidence)])
            ELSE h)

NumReported(rs) == Cardinality({d \in Detectors : Reported(rs[d])})

\* the detectors as initialize_detectors registers them, each by its name()
DetectorNames ==
    <<"FlashLoanDetector", "MevDetector", "Volume Anomaly Detector",
      "FrontRunningDetector", "Cross-Chain Bridge Detector",
      "State Proof Verification Detector", "Omnipool Manipulation Detector",
      "Liquidity Drain Detector", "Collateral Manipulation Detector">>

\* EngineState::default: the keys of detector_stats
StatKeys ==
    {"Flash Loan Detector", "MEV Detector", "Volume Anomaly Detector",
     "FrontRunning Detector", "Cross-Chain Bridge Detector",
     "State Proof Verification Detector", "Omnipool Manipulation Detector",
     "Liquidity Drain Detector", "Collateral Manipulation Detector"}

\* process_transaction: for each reported result,
\* `if let Some(detector_stat) = detector_stats.get_mut(detector.name())`
\* adds 1 to the detections of that key; a name that is no key adds nothing
StatsAfter(stats, rs) ==
    [key \in DOMAIN stats |->
        stats[key] + Cardinality({d \in DOMAIN rs :
                                    Reported(rs[d]) /\ DetectorNames[d] = key})]

\* get_detector_stats: the sum of the detections of the six entries it
\* returns
ReportedDetections ==
    detector_stats["Flash Loan Detector"] + detector_stats["MEV Detector"]
        + detector_stats["Volume Anomaly Detector"]
        + detector_stats["FrontRunning Detector"]
        + detector_stats["Cross-Chain Bridge Detector"]
        + detector_stats["State Proof Verification Detector"]

\* start(): entry
Start(t) ==
    /\ Enter(t, "start", 0, NoAlert, "start_guard")
    /\ stopped' = FALSE
    /\ UNCHANGED <<cfgVars, is_running, counters, event_tasks, txs_left>>
    /\ UNCHANGED <<connVars, alertVars>>

\* the first connect() of a start() that passed the guard; with
\* max_reconnect_attempts > 0 it is made by connect_with_retry
StartConnect(t) ==
    /\ pc' = [pc EXCEPT ![t] = "connect_await"]
    /\ max_attempts' = [max_attempts EXCEPT ![t] = config.max_reconnect_attempts]
    /\ made' = [made EXCEPT ![t] = 1]
    /\ UNCHANGED <<op, attempt, backoff_secs, alert, result, prev, was_running>>

\* (mutant) the flag is read but not set
StartGuard_NoSet(t) ==
    /\ pc[t] = "start_guard"
    /\ IF is_running THEN Return(t, "ConfigError") ELSE StartConnect(t)
    /\ UNCHANGED <<cfgVars, is_running, counters, event_tasks, txs_left, stopped>>
    /\ UNCHANGED <<connVars, alertVars>>

\* start(): under the write guard of the state, is_running is tested;
\* if set ConfigError is returned, else it is set and the guard dropped
StartGuard(t) ==
    /\ pc[t] = "start_guard"
    /\ IF is_running
       THEN Return(t, "ConfigError") /\ UNCHANGED is_running
       ELSE StartConnect(t) /\ is_running' = TRUE
    /\ UNCHANGED <<cfgVars, counters, event_tasks, txs_left, stopped>>
    /\ UNCHANGED <<connVars, alertVars>>

\* (mutant) the error is returned with the flag left set
StartConnFail_KeepsRunning(t) ==
    /\ pc[t] = "start_connfail"
    /\ Return(t, "ConnectionError")
    /\ UNCHANGED <<connVars, alertVars, engVars>>

\* start(): connect_result is Err(e); is_running is reset under the write
\* guard and e returned
StartConnFail(t) ==
    /\ pc[t] = "start_connfail"
    /\ is_running' = FALSE
    /\ Return(t, "ConnectionError")
    /\ UNCHANGED <<cfgVars, counters, event_tasks, txs_left, stopped>>
    /\ UNCHANGED <<connVars, alertVars>>

\* start(): detectors initialised (mempool monitoring only logs);
\* start_block_monitoring reads the client and spawns the detached
\* subscription task, or returns "Not connected to node".  The task takes
\* a free slot of `slots`
SpawnBlockTask(t, slots) ==
    /\ pc[t] = "start_blocks"
    /\ IF ~config.enable_blocks
       THEN Goto(t, "start_events")
       ELSE /\ client_lock = 0
            /\ IF client = None
               THEN Return(t, "ConnectionError")
               ELSE /\ \E k \in slots :
                          /\ pc[k] = "unspawned"
                          /\ pc' = [pc EXCEPT ![t] = "start_events",
                                              ![k] = "subscribe"]
                    /\ UNCHANGED <<op, max_attempts, attempt, backoff_secs, alert,
                                   result, prev, made, was_running>>
    /\ UNCHANGED <<connVars, alertVars, engVars>>

StartBlockMonitoring(t) == SpawnBlockTask(t, Tasks)

\* start(): start_event_monitoring reads the client and spawns the detached
\* event task, or returns "Not connected to node"; then Ok(())
StartEventMonitoring(t) ==
    /\ pc[t] = "start_events"
    /\ IF ~config.enable_events
       THEN Return(t, "Ok") /\ UNCHANGED event_tasks
       ELSE /\ client_lock = 0
            /\ IF client = None
               THEN Return(t, "ConnectionError") /\ UNCHANGED event_tasks
               ELSE /\ event_tasks < MaxTasks
                    /\ event_tasks' = event_tasks + 1
                    /\ Return(t, "Ok")
    /\ UNCHANGED <<cfgVars, is_running, counters, txs_left, stopped>>
    /\ UNCHANGED <<connVars, alertVars>>

\* stop(): entry
Stop(t) ==
    /\ Enter(t, "stop", 0, NoAlert, "stop_flag")
    /\ UNCHANGED <<connVars, alertVars, engVars>>

\* (mutant) stop() also zeroes the block counter
StopFlag_ResetsCounter(t) ==
    /\ pc[t] = "stop_flag"
    /\ was_running' = [was_running EXCEPT ![t] = is_running]
    /\ is_running' = FALSE
    /\ blocks_processed' = 0
    /\ pc' = [pc EXCEPT ![t] = "disconnect_store"]
    /\ UNCHANGED <<op, max_attempts, attempt, backoff_secs, alert, result, prev, made>>
    /\ UNCHANGED <<cfgVars, transactions_analyzed, alerts_triggered, event_tasks,
                   txs_left, stopped>>
    /\ UNCHANGED <<connVars, alertVars>>

\* stop(): is_running = false under the write guard; disconnect() follows
StopFlag(t) ==
    /\ pc[t] = "stop_flag"
    /\ was_running' = [was_running EXCEPT ![t] = is_running]
    /\ is_running' = FALSE
    /\ pc' = [pc EXCEPT ![t] = "disconnect_store"]
    /\ UNCHANGED <<op, max_attempts, attempt, backoff_secs, alert, result, prev, made>>
    /\ UNCHANGED <<cfgVars, counters, event_tasks, txs_left, stopped>>
    /\ UNCHANGED <<connVars, alertVars>>

\* the frame of a step of task k that moves it to `label`
TaskGoto(k, label) ==
    /\ pc' = [pc EXCEPT ![k] = label]
    /\ UNCHANGED <<op, max_attempts, attempt, backoff_secs, alert, result, prev,
                   made, was_running>>

\* subscribe_to_blocks: subscribe_finalized() succeeds, or fails and the
\* task ends with a SubscriptionError that is only logged
Subscribe(k) ==
    /\ pc[k] = "subscribe"
    /\ \E ok \in BOOLEAN : TaskGoto(k, IF ok THEN "next" ELSE "unspawned")
    /\ UNCHANGED <<connVars, alertVars, engVars>>

\* (mutant) a delivered block is counted twice
BlockNext_CountsTwice(k) ==
    /\ pc[k] = "next"
    /\ blocks_processed < MaxBlocks
    /\ blocks_processed' = blocks_processed + 2
    /\ TaskGoto(k, "extract")
    /\ UNCHANGED <<cfgVars, is_running, transactions_analyzed, alerts_triggered,
                   event_tasks, txs_left, stopped>>
    /\ UNCHANGED <<connVars, alertVars>>

\* subscribe_to_blocks: the stream yields Ok(block); blocks_processed += 1
\* under the write guard of the state
BlockNext(k) ==
    /\ pc[k] = "next"
    /\ blocks_processed < MaxBlocks
    /\ blocks_processed' = blocks_processed + 1
    /\ TaskGoto(k, "extract")
    /\ UNCHANGED <<cfgVars, is_running, transactions_analyzed, alerts_triggered,
                   event_tasks, txs_left, stopped>>
    /\ UNCHANGED <<connVars, alertVars>>

\* subscribe_to_blocks: the stream ends or yields Err; the task ends
StreamEnd(k) ==
    /\ pc[k] = "next"
    /\ \E how \in {"None", "Err"} : TaskGoto(k, "unspawned")
    /\ UNCHANGED <<connVars, alertVars, engVars>>

\* subscribe_to_blocks: extract_from_block fails (a warning) or returns n
\* transactions; for n > 0, transactions_analyzed += n
Extract(k) ==
    /\ pc[k] = "extract"
    /\ \E ok \in BOOLEAN, n \in 0..MaxTxs :
          IF ok /\ n > 0
          THEN /\ transactions_analyzed' = transactions_analyzed + n
               /\ txs_left' = [txs_left EXCEPT ![k] = n]
               /\ TaskGoto(k, "process")
          ELSE /\ TaskGoto(k, "next")
               /\ UNCHANGED <<transactions_analyzed, txs_left>>
    /\ UNCHANGED <<cfgVars, is_running, blocks_processed, alerts_triggered,
                   event_tasks, stopped>>
    /\ UNCHANGED <<connVars, alertVars>>

\* process_transaction for the next transaction of the block: every
\* detector analyses it; each reported result adds 1 to alerts_triggered
\* and triggers an alert of the severity its confidence maps to
ProcessTransaction(k) ==
    /\ pc[k] = "process"
    /\ history_lock = 0
    /\ \E rs \in [Detectors -> DetectionResults] :
          /\ detector_stats' = StatsAfter(detector_stats, rs)
          /\ alerts_triggered' = alerts_triggered + NumReported(rs)
          /\ alert_history' = AfterDetectors(rs, 1, alert_history)
          /\ Len(alert_history') <= MaxHistory
    /\ txs_left' = [txs_left EXCEPT ![k] = @ - 1]
    /\ TaskGoto(k, IF txs_left[k] = 1 THEN "next" ELSE "process")
    /\ UNCHANGED <<config, contexts, indicators, detector, detections,
                   recent_transactions, tx_pos, uuids, block_events,
                   database, extraction, history_calls, submitted>>
    /\ UNCHANGED <<is_running, blocks_processed, transactions_analyzed,
                   event_tasks, stopped>>
    /\ UNCHANGED <<min_severity, webhook_url, history_lock>>
    /\ UNCHANGED connVars

\* subscribe_to_events: the event task ends (subscription failure, stream
\* end or stream error); it changes no state while it runs
EventTaskEnd ==
    /\ event_tasks > 0
    /\ event_tasks' = event_tasks - 1
    /\ UNCHANGED <<cfgVars, is_running, counters, txs_left, stopped>>
    /\ UNCHANGED <<connVars, alertVars, procVars>>

\* ------------------------------------------------------ detectors: types
\* Option<T> is a sequence of at most one T
NoValue == << >>
SomeOf(x) == <<x>>
IsSome(o) == Len(o) = 1
Unwrap(o) == o[1]

\* str::to_lowercase on the names the model uses
Lower(s) ==
    CASE s = "Borrowed" -> "borrowed"
      [] s = "Repaid" -> "repaid"
      [] s = "Swapped" -> "swapped"
      [] s = "FlashLoan" -> "flashloan"
      [] s = "Transfer" -> "transfer"
      [] s = "Lending" -> "lending"
      [] s = "Dex" -> "dex"
      [] s = "Balances" -> "balances"
      [] s = "Staking" -> "staking"
      [] s = "XTokens" -> "xtokens"
      [] s = "XcmAssets" -> "xcmassets"
      [] s = "Ismp" -> "ismp"
      [] s = "PostRequest" -> "postrequest"
      [] s = "GetRequest" -> "getrequest"
      [] s = "PostResponse" -> "postresponse"
      [] OTHER -> s

\* the substrings the detectors search for that occur in s (case-sensitive)
Words(s) ==
    CASE s = "borrowed" -> {"borrow"}
      [] s = "repaid" -> {"repaid"}
      [] s = "swapped" -> {"swap"}
      [] s = "flashloan" -> {"loan"}
      [] s = "transfer" -> {"transfer"}
      [] s = "lending" -> {"lending"}
      [] s = "dex" -> {"dex"}
      [] s = "swap" -> {"swap"}
      [] s = "batch" -> {"batch"}
      [] s = "xtokens" -> {"xtokens"}
      [] s = "xcmassets" -> {"xcm", "asset"}
      [] s = "ismp" -> {"ismp"}
      [] s = "postrequest" -> {"post", "request"}
      [] s = "getrequest" -> {"get", "request"}
      [] s = "postresponse" -> {"post", "response"}
      [] s = "AccountBalance" -> {"Balance"}
      [] OTHER -> {}

\* str::contains
Contains(s, w) == w \in Words(s)

\* DetectionResult, reduced to detected, confidence and pattern; the
\* confidence is in thousandths
no_detection == [detected |-> FALSE, confidence |-> 0, pattern |-> "Unknown"]

Detected(pattern, confidence) ==
    [detected |-> TRUE, confidence |-> confidence, pattern |-> pattern]

\* DetectionResult::safe(), the result of the event-based detectors on a
\* context without activity of their kind
safe == [detected |-> FALSE, confidence |-> 0, pattern |-> "Unknown"]

\* a ParsedTransaction without nonce, state changes and events
DefaultTx ==
    [hash |-> 0, block_number |-> 1, index |-> 0, caller |-> "A",
     pallet |-> "Balances", call |-> "remark", args_len |-> 0,
     nonce |-> NoValue, success |-> TRUE]

\* TransactionContext { transaction, events: vec![], state_changes: vec![] }
ContextOf(tx) == [transaction |-> tx, events |-> << >>, state_changes |-> << >>]

\* ------------------------------------------------- FlashLoanDetector
RECURSIVE BigEndian(_)
BigEndian(bytes) ==
    IF bytes = << >> THEN 0
    ELSE BigEndian(SubSeq(bytes, 1, Len(bytes) - 1)) * 256 + bytes[Len(bytes)]

\* the last 8 bytes, big-endian; shorter arrays are zero-padded on the left
bytes_to_u64(bytes) ==
    IF Len(bytes) >= 8
    THEN BigEndian(SubSeq(bytes, Len(bytes) - 7, Len(bytes)))
    ELSE BigEndian(bytes)

\* the condition under which count_large_balance_changes counts a change:
\* change_ratio > 1.5, the ratio being new/old when new > old and old/new
\* (infinite for new = 0) otherwise
IsLargeBalanceChange(change) ==
    /\ IsSome(change.old_value) /\ IsSome(change.new_value)
    /\ Len(Unwrap(change.old_value)) = Len(Unwrap(change.new_value))
    /\ Unwrap(change.old_value) # << >>
    /\ LET old_num == bytes_to_u64(Unwrap(change.old_value))
           new_num == bytes_to_u64(Unwrap(change.new_value))
       IN /\ old_num > 0
          /\ IF new_num > old_num
             THEN 2 * new_num > 3 * old_num
             ELSE new_num = 0 \/ 2 * old_num > 3 * new_num

count_large_balance_changes(state_changes) ==
    Cardinality({n \in DOMAIN state_changes :
                    IsLargeBalanceChange(state_changes[n])})

NameHasBorrow(e) == Contains(Lower(e.event_name), "borrow")
NameHasRepay(e) ==
    Contains(Lower(e.event_name), "repay") \/ Contains(Lower(e.event_name), "repaid")
IsDexEvent(e) ==
    \/ Contains(Lower(e.pallet), "dex")
    \/ Contains(Lower(e.event_name), "swap")
    \/ Contains(Lower(e.event_name), "trade")
IsLendingPallet(e) ==
    Contains(Lower(e.pallet), "lending") \/ Contains(Lower(e.pallet), "loan")

FlashLoanAnalyzeEvents(ctx) ==
    LET NumOf(S) == Cardinality(S)
        events == ctx.events
    IN
    [has_borrow |-> \E i \in DOMAIN events : NameHasBorrow(events[i]),
     has_repay |-> \E i \in DOMAIN events : NameHasRepay(events[i]),
     dex_interaction_count |->
         NumOf({n \in DOMAIN events : IsDexEvent(events[n])}),
     lending_protocol_interactions |->
         NumOf({n \in DOMAIN events : NameHasBorrow(events[n])})
             + NumOf({n \in DOMAIN events : NameHasRepay(events[n])})
             + NumOf({n \in DOMAIN events : IsLendingPallet(events[n])}),
     large_balance_changes |-> count_large_balance_changes(ctx.state_changes)]

\* (mutant) the sum is not capped
FlashLoanConfidence_Uncapped(ind) ==
    IF ind.has_borrow /\ ind.has_repay
    THEN 500 + (IF ind.dex_interaction_count >= 2
                THEN (150 * Min(ind.dex_interaction_count, 4)) \div 2
                ELSE 0)
             + (IF ind.large_balance_changes > 0 THEN 200 ELSE 0)
             + (IF ind.lending_protocol_interactions > 2 THEN 100 ELSE 0)
    ELSE IF ind.has_borrow THEN 200 ELSE 0

\* 0.5 for borrow and repay, + 0.15 * min(dex, 4) / 2 for two or more DEX
\* interactions, + 0.2 for a large balance change, + 0.1 for more than two
\* lending interactions; 0.2 for a borrow alone; capped at 1.0
FlashLoanConfidence(ind) ==
    IF ind.has_borrow /\ ind.has_repay
    THEN Min(500 + (IF ind.dex_interaction_count >= 2
                    THEN (150 * Min(ind.dex_interaction_count, 4)) \div 2
                    ELSE 0)
                 + (IF ind.large_balance_changes > 0 THEN 200 ELSE 0)
                 + (IF ind.lending_protocol_interactions > 2 THEN 100 ELSE 0),
             1000)
    ELSE IF ind.has_borrow THEN 200 ELSE 0

FlashLoanAnalyze_ReportsAll(ctx) ==
    LET confidence == FlashLoanConfidence(FlashLoanAnalyzeEvents(ctx))
    IN IF confidence > 0 THEN Detected("FlashLoan", confidence)
       ELSE no_detection

\* FlashLoanDetector::analyze_transaction
FlashLoanAnalyze(ctx) ==
    LET confidence == FlashLoanConfidence(FlashLoanAnalyzeEvents(ctx))
    IN IF confidence >= 300 THEN Detected("FlashLoan", confidence)
       ELSE no_detection

\* --------------------------------------------------------- MevDetector
\* an entry of indicators_map; `present` is FALSE for an index the map
\* does not contain
NoIndicators ==
    [present |-> FALSE, is_sandwich |-> FALSE, is_frontrunning |-> FALSE,
     is_backrunning |-> FALSE, confidence |-> 0]

is_dex_operation(tx) ==
    \/ Contains(Lower(tx.pallet), "dex")
    \/ Contains(Lower(tx.call), "swap")
    \/ Contains(Lower(tx.call), "trade")
    \/ Contains(Lower(tx.call), "exchange")

\* more than a quarter of the bytes of two arrays of equal length differ
is_large_state_change(sc) ==
    /\ IsSome(sc.old_value) /\ IsSome(sc.new_value)
    /\ Len(Unwrap(sc.old_value)) = Len(Unwrap(sc.new_value))
    /\ Unwrap(sc.old_value) # << >>
    /\ Cardinality({j \in DOMAIN Unwrap(sc.old_value) :
                       Unwrap(sc.old_value)[j] # Unwrap(sc.new_value)[j]})
          > Len(Unwrap(sc.old_value)) \div 4

\* the window test of detect_sandwich_attacks for positions i, i+1, i+2
SandwichSequential(before, middle, after) ==
    /\ middle.index = before.index + 1
    /\ after.index = middle.index + 1

SandwichWindow(before, middle, after) ==
    /\ before.caller = after.caller
    /\ middle.caller # before.caller
    /\ \/ SandwichSequential(before, middle, after)
       \/ /\ middle.index <= before.index + 3
          /\ after.index <= middle.index + 3
    /\ is_dex_operation(before) /\ is_dex_operation(middle)
    /\ is_dex_operation(after)

SandwichConfidence(before, middle, after) ==
    Min(700 + (IF SandwichSequential(before, middle, after) THEN 150 ELSE 0)
            + (IF /\ IsSome(before.nonce) /\ IsSome(after.nonce)
                  /\ Unwrap(after.nonce) = Unwrap(before.nonce) + 1
               THEN 100 ELSE 0),
        1000)

RECURSIVE detect_sandwich_attacks(_, _, _)
detect_sandwich_attacks(cs, i, map) ==
    IF i + 2 > Len(cs) THEN map
    ELSE LET before == cs[i].transaction
             middle == cs[i + 1].transaction
             after == cs[i + 2].transaction
             entry == [present |-> TRUE, is_sandwich |-> TRUE,
                       is_frontrunning |-> FALSE, is_backrunning |-> FALSE,
                       confidence |-> SandwichConfidence(before, middle, after)]
         IN detect_sandwich_attacks(cs, i + 1,
                IF SandwichWindow(before, middle, after)
                THEN [map EXCEPT ![i] = entry, ![i + 1] = entry, ![i + 2] = entry]
                ELSE map)

RECURSIVE detect_frontrunning(_, _, _)
detect_frontrunning(cs, i, map) ==
    IF i + 1 > Len(cs) THEN map
    ELSE LET current == cs[i].transaction
             next == cs[i + 1].transaction
             victim_failed == ~next.success /\ current.success
             entry == [present |-> TRUE, is_sandwich |-> FALSE,
                       is_frontrunning |-> TRUE, is_backrunning |-> FALSE,
                       confidence |->
                           Min(500 + (IF victim_failed THEN 250 ELSE 0)
                                   + (IF next.index = current.index + 1
                                      THEN 100 ELSE 0),
                               1000)]
         IN detect_frontrunning(cs, i + 1,
                IF /\ ~map[i].present
                   /\ current.call = next.call /\ current.pallet = next.pallet
                   /\ current.caller # next.caller
                   /\ next.index <= current.index + 2
                THEN [map EXCEPT ![i] = entry]
                ELSE map)

\* (mutant) the second transaction need not follow immediately
BackrunningPair_AnyGap(current, next) ==
    /\ \E j \in DOMAIN current.state_changes :
          is_large_state_change(current.state_changes[j])
    /\ is_dex_operation(next.transaction)

\* has_large_changes && next_is_dex && immediately_after
BackrunningPair(current, next) ==
    /\ \E j \in DOMAIN current.state_changes :
          is_large_state_change(current.state_changes[j])
    /\ is_dex_operation(next.transaction)
    /\ next.transaction.index = current.transaction.index + 1

\* the entry of index i+1 is written whether or not an earlier pass
\* has claimed it
RECURSIVE detect_backrunning(_, _, _)
detect_backrunning(cs, i, map) ==
    IF i + 1 > Len(cs) THEN map
    ELSE LET entry == [present |-> TRUE, is_sandwich |-> FALSE,
                       is_frontrunning |-> FALSE, is_backrunning |-> TRUE,
                       confidence |-> 600]
         IN detect_backrunning(cs, i + 1,
                IF BackrunningPair(cs[i], cs[i + 1])
                THEN [map EXCEPT ![i + 1] = entry]
                ELSE map)

analyze_batch_for_mev(cs) ==
    LET empty == [i \in DOMAIN cs |-> NoIndicators]
    IN IF Len(cs) < 2 THEN empty
       ELSE detect_backrunning(cs, 1,
                detect_frontrunning(cs, 1,
                    detect_sandwich_attacks(cs, 1, empty)))

\* MevDetector::analyze_transaction
MevAnalyze(ctx) == no_detection

\* MevDetector::analyze_batch
MevAnalyzeBatch(cs) ==
    LET indicators_map == analyze_batch_for_mev(cs)
    IN [idx \in DOMAIN cs |->
           IF indicators_map[idx].present
           THEN Detected(IF indicators_map[idx].is_sandwich THEN "Sandwich"
                         ELSE IF indicators_map[idx].is_frontrunning
                              THEN "FrontRunning"
                              ELSE "Mev",
                         indicators_map[idx].confidence)
           ELSE no_detection]

\* ----------------------------------------------- VolumeAnomalyDetector
VolumeSuspicion(tx) ==
    (IF Lower(tx.pallet) = "balances"
     THEN 300 + (IF Contains(tx.call, "transfer") THEN 200 ELSE 0) ELSE 0)
    + (IF Contains(Lower(tx.pallet), "asset") THEN 400 ELSE 0)
    + (IF Lower(tx.pallet) = "staking" THEN 350 ELSE 0)
    + (IF Lower(tx.pallet) = "utility" /\ Contains(tx.call, "batch")
       THEN 500 ELSE 0)
    + (IF Contains(Lower(tx.pallet), "xcm") \/ Contains(Lower(tx.pallet), "xtokens")
       THEN 600 ELSE 0)
    + (IF tx.args_len > 3 THEN 200 ELSE 0)

VolumeAnalyze_Uncapped(ctx) ==
    LET suspicion_score == VolumeSuspicion(ctx.transaction)
    IN IF suspicion_score > 500
       THEN Detected("VolumeAnomaly", suspicion_score)
       ELSE no_detection

\* VolumeAnomalyDetector::analyze_transaction
VolumeAnalyze(ctx) ==
    LET suspicion_score == VolumeSuspicion(ctx.transaction)
    IN IF suspicion_score > 500
       THEN Detected("VolumeAnomaly", Min(suspicion_score, 950))
       ELSE no_detection

\* ------------------------------------------------ FrontRunningDetector
HistoryCap == 100      \* if history.len() >= 100 { history.remove(0); }

add_to_history(history, tx) ==
    Append(IF Len(history) >= HistoryCap THEN Tail(history) ELSE history, tx)

\* the transactions of the history that are of the block of the context
RECURSIVE BlockTxs(_, _)
BlockTxs(history, block) ==
    IF history = << >> THEN << >>
    ELSE IF Head(history).block_number = block
         THEN <<Head(history)>> \o BlockTxs(Tail(history), block)
         ELSE BlockTxs(Tail(history), block)

detect_sandwich_pattern(history, ctx) ==
    LET tx == ctx.transaction
        block_txs == BlockTxs(history, tx.block_number)
    IN /\ Len(history) >= 2
       /\ Len(block_txs) >= 2
       /\ \E i \in 2..(Len(block_txs) - 1) :
             /\ block_txs[i].hash = tx.hash
             /\ block_txs[i - 1].caller = block_txs[i + 1].caller
             /\ block_txs[i - 1].caller # tx.caller
             /\ block_txs[i - 1].pallet = tx.pallet
             /\ block_txs[i + 1].pallet = tx.pallet

analyze_mempool_pattern(history, ctx) ==
    LET tx == ctx.transaction
        others == {i \in DOMAIN history : history[i].hash # tx.hash}
        same_target == {i \in others : /\ history[i].pallet = tx.pallet
                                       /\ history[i].call = tx.call}
        duplicate == {i \in same_target : history[i].caller # tx.caller}
        same_caller == {i \in others : /\ history[i].caller = tx.caller
                                       /\ history[i].pallet = tx.pallet
                                       /\ history[i].block_number = tx.block_number}
    IN [has_duplicate_call |-> duplicate # {},
        is_high_priority |-> FALSE,
        has_sandwich_pattern |-> detect_sandwich_pattern(history, ctx),
        similar_transaction_count |-> Cardinality(duplicate) + Cardinality(same_caller),
        same_target_count |-> Cardinality(same_target)]

FrontRunningConfidence(ind) ==
    Min((IF ind.has_sandwich_pattern THEN 700 ELSE 0)
        + (IF ind.has_duplicate_call THEN 300 ELSE 0)
        + (IF ind.similar_transaction_count > 1
           THEN 100 * Min(ind.similar_transaction_count, 2) ELSE 0)
        + (IF ind.is_high_priority THEN 100 ELSE 0)
        + (IF ind.same_target_count > 2 THEN 100 ELSE 0),
        1000)

determine_pattern(ind) ==
    IF ind.has_sandwich_pattern THEN "Sandwich"
    ELSE IF ind.has_duplicate_call \/ ind.similar_transaction_count > 1
         THEN "FrontRunning"
         ELSE "Unknown"

\* FrontRunningDetector::analyze_transaction, on the history that already
\* holds the transaction of the context
FrontRunningAnalyze(history, ctx) ==
    LET ind == analyze_mempool_pattern(history, ctx)
        confidence == FrontRunningConfidence(ind)
    IN IF confidence >= 400 THEN Detected(determine_pattern(ind), confidence)
       ELSE no_detection

\* the default Detector::analyze_batch of the FrontRunningDetector: the
\* history after the batch, and the results
RECURSIVE FrontRunningHistory(_, _)
\* MonitoringEngine::new: database: None
NoDatabase ==
    [client |-> None, failing |-> FALSE, transactions |-> 0, ml_features |-> 0,
     detections |-> 0]

\* new, or with_database with a client whose inserts succeed or fail
Databases ==
    {NoDatabase, [NoDatabase EXCEPT !.client = Some],
     [NoDatabase EXCEPT !.client = Some, !.failing = TRUE]}

\* the database after process_transaction has reported n detections:
\* insert_transaction and insert_ml_features once, insert_detection for
\* each report; an Err of an insert is logged
Inserted(db, n) ==
    IF db.client = Some /\ ~db.failing
    THEN [db EXCEPT !.transactions = @ + 1, !.ml_features = @ + 1,
                    !.detections = @ + n]
    ELSE db

\* no extract_from_block call made
NoExtraction == [extrinsics |-> << >>, result |-> << >>]

\* no analyze_transaction call in progress
NoHistoryCall == [pc |-> "idle", tx |-> DefaultTx, calls |-> 0, found |-> << >>]

FrontRunningHistory(history, cs) ==
    IF cs = << >> THEN history
    ELSE FrontRunningHistory(add_to_history(history, Head(cs).transaction), Tail(cs))

FrontRunningAnalyzeBatch(history, cs) ==
    [i \in DOMAIN cs |->
        FrontRunningAnalyze(
            FrontRunningHistory(history, SubSeq(cs, 1, i)), cs[i])]

\* ------------------- the detectors that read event data (hydration.rs,
\* hyperbridge.rs).  Their analyze_events is not modelled: the model starts
\* from the indicators it returns, in the combinations it can return.
OmnipoolIndicators ==
    {ind \in [kind : {"Omnipool"}, swap_count : 0..3,
              has_add_liquidity : BOOLEAN, has_remove_liquidity : BOOLEAN,
              large_price_impact : BOOLEAN, flash_loan_pattern : BOOLEAN,
              oracle_deviation : BOOLEAN] :
        (ind.large_price_impact \/ ind.oracle_deviation) => ind.swap_count > 0}

OmnipoolConfidence(ind) ==
    Min((IF ind.flash_loan_pattern /\ ind.swap_count > 0 THEN 600 ELSE 0)
        + (IF ind.large_price_impact THEN 300 ELSE 0)
        + (IF ind.swap_count > 2 THEN 250 ELSE 0)
        + (IF ind.oracle_deviation THEN 200 ELSE 0)
        + (IF ind.has_add_liquidity /\ ind.has_remove_liquidity THEN 150 ELSE 0),
        1000)

\* OmnipoolManipulationDetector::analyze_transaction
OmnipoolAnalyze(ind) ==
    IF ind.swap_count = 0 /\ ~ind.has_add_liquidity /\ ~ind.has_remove_liquidity
    THEN safe
    ELSE [detected |-> OmnipoolConfidence(ind) > 500,
          confidence |-> OmnipoolConfidence(ind),
          pattern |-> "OmnipoolManipulation"]

LiquidityDrainIndicators ==
    {ind \in [kind : {"LiquidityDrain"}, multiple_withdrawals : 0..2,
              large_withdrawal : BOOLEAN, pool_depletion_risk : BOOLEAN,
              suspicious_timing : BOOLEAN] :
        (ind.large_withdrawal \/ ind.pool_depletion_risk \/ ind.suspicious_timing)
            => ind.multiple_withdrawals > 0}

LiquidityDrainConfidence(ind) ==
    Min((IF ind.large_withdrawal THEN 400 ELSE 0)
        + (IF ind.multiple_withdrawals > 1 THEN 300 ELSE 0)
        + (IF ind.pool_depletion_risk THEN 400 ELSE 0)
        + (IF ind.suspicious_timing THEN 200 ELSE 0),
        1000)

\* LiquidityDrainDetector::analyze_transaction
LiquidityDrainAnalyze(ind) ==
    IF ind.multiple_withdrawals = 0 THEN safe
    ELSE [detected |-> LiquidityDrainConfidence(ind) > 500,
          confidence |-> LiquidityDrainConfidence(ind),
          pattern |-> "LiquidityDrain"]

CollateralIndicators ==
    {ind \in [kind : {"Collateral"}, liquidation_count : 0..2,
              has_collateral_change : BOOLEAN, health_factor_drop : BOOLEAN,
              flash_loan_liquidation : BOOLEAN, cascade_risk : BOOLEAN] :
        /\ (ind.flash_loan_liquidation \/ ind.cascade_risk)
               => ind.liquidation_count > 0
        /\ ind.health_factor_drop => ind.has_collateral_change}

CollateralConfidence(ind) ==
    Min((IF ind.flash_loan_liquidation THEN 700 ELSE 0)
        + (IF ind.liquidation_count > 1 THEN 400 ELSE 0)
        + (IF ind.cascade_risk THEN 500 ELSE 0)
        + (IF ind.health_factor_drop THEN 300 ELSE 0),
        1000)

\* CollateralManipulationDetector::analyze_transaction
CollateralAnalyze(ind) ==
    IF ind.liquidation_count = 0 /\ ~ind.has_collateral_change THEN safe
    ELSE [detected |-> CollateralConfidence(ind) > 500,
          confidence |-> CollateralConfidence(ind),
          pattern |-> "CollateralManipulation"]

CrossChainIndicators ==
    {ind \in [kind : {"CrossChain"}, request_count : 0..4,
              response_count : 0..1, duplicate_commitments : BOOLEAN,
              multiple_destinations : BOOLEAN, high_value_transfer : BOOLEAN] :
        (ind.duplicate_commitments \/ ind.multiple_destinations)
            => ind.request_count > 1}

CrossChainConfidence(ind) ==
    Min((IF ind.duplicate_commitments THEN 600 ELSE 0)
        + (IF ind.request_count > 3 THEN 200 ELSE 0)
        + (IF ind.multiple_destinations THEN 150 ELSE 0)
        + (IF ind.high_value_transfer /\ ind.request_count > 1 THEN 150 ELSE 0)
        + (IF ind.request_count > 0 /\ ind.response_count = 0 THEN 100 ELSE 0),
        1000)

\* CrossChainBridgeDetector::analyze_transaction
CrossChainAnalyze(ind) ==
    IF ind.request_count = 0 /\ ind.response_count = 0 THEN safe
    ELSE [detected |-> CrossChainConfidence(ind) > 500,
          confidence |-> CrossChainConfidence(ind),
          pattern |-> "CrossChainBridge"]

StateProofIndicators ==
    {ind \in [kind : {"StateProof"}, has_state_proof : BOOLEAN,
              has_consensus_proof : BOOLEAN, proof_verification_failed : BOOLEAN,
              multiple_proofs_same_height : BOOLEAN,
              invalid_proof_structure : BOOLEAN, suspicious_relayer : BOOLEAN] :
        (ind.multiple_proofs_same_height \/ ind.invalid_proof_structure)
            => ind.has_state_proof}

StateProofConfidence(ind) ==
    Min((IF ind.proof_verification_failed THEN 700 ELSE 0)
        + (IF ind.multiple_proofs_same_height THEN 500 ELSE 0)
        + (IF ind.invalid_proof_structure THEN 400 ELSE 0)
        + (IF ind.suspicious_relayer THEN 300 ELSE 0),
        1000)

\* StateProofVerificationDetector::analyze_transaction
StateProofAnalyze(ind) ==
    IF ~ind.has_state_proof /\ ~ind.has_consensus_proof THEN safe
    ELSE [detected |-> StateProofConfidence(ind) > 500,
          confidence |-> StateProofConfidence(ind),
          pattern |-> "StateProofManipulation"]

\* the indicators analyze_events returns for a context without events
NoIndicatorsOf(kind) ==
    CASE kind = "Omnipool" ->
            [kind |-> kind, swap_count |-> 0, has_add_liquidity |-> FALSE,
             has_remove_liquidity |-> FALSE, large_price_impact |-> FALSE,
             flash_loan_pattern |-> FALSE, oracle_deviation |-> FALSE]
      [] kind = "LiquidityDrain" ->
            [kind |-> kind, multiple_withdrawals |-> 0, large_withdrawal |-> FALSE,
             pool_depletion_risk |-> FALSE, suspicious_timing |-> FALSE]
      [] kind = "Collateral" ->
            [kind |-> kind, liquidation_count |-> 0,
             has_collateral_change |-> FALSE, health_factor_drop |-> FALSE,
             flash_loan_liquidation |-> FALSE, cascade_risk |-> FALSE]
      [] kind = "CrossChain" ->
            [kind |-> kind, request_count |-> 0, response_count |-> 0,
             duplicate_commitments |-> FALSE, multiple_destinations |-> FALSE,
             high_value_transfer |-> FALSE]
      [] kind = "StateProof" ->
            [kind |-> kind, has_state_proof |-> FALSE,
             has_consensus_proof |-> FALSE, proof_verification_failed |-> FALSE,
             multiple_proofs_same_height |-> FALSE,
             invalid_proof_structure |-> FALSE, suspicious_relayer |-> FALSE]

EventAnalyze(ind) ==
    CASE ind.kind = "Omnipool" -> OmnipoolAnalyze(ind)
      [] ind.kind = "LiquidityDrain" -> LiquidityDrainAnalyze(ind)
      [] ind.kind = "Collateral" -> CollateralAnalyze(ind)
      [] ind.kind = "CrossChain" -> CrossChainAnalyze(ind)
      [] ind.kind = "StateProof" -> StateProofAnalyze(ind)

\* ------------------------------------------- the inputs of the detectors
\* ChainEvents, reduced to pallet and event name
ChainEvents ==
    {[pallet |-> "Lending", event_name |-> "Borrowed"],
     [pallet |-> "Lending", event_name |-> "Repaid"],
     [pallet |-> "Lending", event_name |-> "FlashLoan"],
     [pallet |-> "Dex", event_name |-> "Swapped"]}

\* Option<Vec<u8>> values of a StateChange
StorageValues ==
    {NoValue} \cup {SomeOf(b) : b \in {<<0>>, <<2>>, <<3>>, <<4>>, <<0, 4>>}}

StateChanges == [old_value : StorageValues, new_value : StorageValues]

SeqsUpTo(S, n) == UNION {[1..k -> S] : k \in 0..n}

\* contexts with events and at most one state change
EventContexts ==
    {[transaction |-> DefaultTx, events |-> es, state_changes |-> scs] :
        es \in SeqsUpTo(ChainEvents, MaxEvents),
        scs \in {<< >>} \cup {<<sc>> : sc \in StateChanges}}

\* a borrow and a repayment, emitted by a lending pallet or by another one,
\* followed by swaps, with or without a large state change
LoanContexts ==
    {[transaction |-> DefaultTx,
      events |-> <<[pallet |-> p, event_name |-> "Borrowed"],
                   [pallet |-> p, event_name |-> "Repaid"]>>
                   \o [k \in 1..n |-> [pallet |-> "Dex", event_name |-> "Swapped"]],
      state_changes |-> scs] :
        p \in {"Lending", "Balances"}, n \in 0..MaxSwaps,
        scs \in {<< >>,
                 <<[old_value |-> SomeOf(<<0, 2>>), new_value |-> SomeOf(<<0, 4>>)]>>}}

LargeChange == [old_value |-> SomeOf(<<0, 2>>), new_value |-> SomeOf(<<0, 4>>)]

\* the transactions of the batches: swaps by A with the nonces 1 and 2, a
\* swap by B, a failed swap by B, and a swap by A and a transfer by B that
\* each move a storage value
BatchIndices == {10, 11, 12, 14}

BatchContexts ==
    LET swap == [DefaultTx EXCEPT !.pallet = "Dex", !.call = "swap"]
        transfer == [DefaultTx EXCEPT !.call = "transfer"]
        kinds ==
            {ContextOf([swap EXCEPT !.nonce = SomeOf(1)]),
             ContextOf([swap EXCEPT !.nonce = SomeOf(2)]),
             ContextOf([swap EXCEPT !.caller = "B"]),
             ContextOf([swap EXCEPT !.caller = "B", !.success = FALSE]),
             [ContextOf(swap) EXCEPT !.state_changes = <<LargeChange>>],
             [ContextOf([transfer EXCEPT !.caller = "B"])
                 EXCEPT !.state_changes = <<LargeChange>>]}
    IN {[c EXCEPT !.transaction.index = n] : c \in kinds, n \in BatchIndices}

\* the hash of a transaction of a batch or block is its position
WithHashes(cs) == [i \in DOMAIN cs |-> [cs[i] EXCEPT !.transaction.hash = i]]

Batches == {WithHashes(cs) : cs \in SeqsUpTo(BatchContexts, MaxBatch)}

\* batches of four swaps by A, B, A, B, in which the windows (1, 2, 3) and
\* (2, 3, 4) overlap
OverlapBatches ==
    LET swap == [DefaultTx EXCEPT !.pallet = "Dex", !.call = "swap"]
    IN {WithHashes(
           <<ContextOf([swap EXCEPT !.index = ix[1], !.nonce = SomeOf(1)]),
             ContextOf([swap EXCEPT !.index = ix[2], !.caller = "B"]),
             ContextOf([swap EXCEPT !.index = ix[3], !.nonce = SomeOf(n)]),
             ContextOf([swap EXCEPT !.index = ix[4], !.caller = "B"])>>) :
           ix \in {<<10, 11, 12, 13>>, <<10, 11, 12, 14>>, <<10, 12, 13, 14>>},
           n \in {1, 2}}

\* single transactions for the volume detector
VolumeContexts ==
    {ContextOf([DefaultTx EXCEPT !.pallet = p, !.call = c, !.args_len = n]) :
        p \in {"Balances", "Staking", "XTokens", "XcmAssets", "Dex", "utility"},
        c \in {"transfer", "swap", "batch"}, n \in {0, 4}}

\* the events of a bridge transaction: pallet, event name, and the
\* "commitment" and "dest" strings of the event data
BridgeEvents ==
    {[pallet |-> o[1], event_name |-> o[2], commitment |-> o[3], dest |-> o[4]] :
        o \in {<<"Ismp", "PostRequest", SomeOf("c1"), SomeOf("d1")>>,
               <<"Ismp", "PostRequest", SomeOf("c1"), SomeOf("d2")>>,
               <<"Ismp", "PostRequest", NoValue, NoValue>>,
               <<"Ismp", "GetRequest", SomeOf("c1"), SomeOf("d1")>>,
               <<"Ismp", "PostResponse", SomeOf("c1"), NoValue>>,
               <<"Balances", "PostRequest", SomeOf("c1"), SomeOf("d1")>>}}

\* contexts of bridge events, with or without a state change of a balance key
BridgeContexts ==
    {[transaction |-> DefaultTx, events |-> es, state_changes |-> scs] :
        es \in SeqsUpTo(BridgeEvents, MaxEvents),
        scs \in {<< >>, <<[key |-> "AccountBalance", old_value |-> NoValue,
                          new_value |-> NoValue]>>,
                 <<[key |-> "nonce", old_value |-> NoValue,
                    new_value |-> NoValue]>>}}

\* CrossChainBridgeDetector::analyze_events: only events of an ismp or
\* hyperbridge pallet count, and commitments and destinations are collected
\* from the POST requests alone
CrossChainAnalyzeEvents(ctx) ==
    LET es == ctx.events
        named(i, a, b) ==
            /\ \/ Contains(Lower(es[i].pallet), "ismp")
               \/ Contains(Lower(es[i].pallet), "hyperbridge")
            /\ Contains(Lower(es[i].event_name), a)
            /\ Contains(Lower(es[i].event_name), b)
        posts == {i \in DOMAIN es : named(i, "post", "request")}
        gets == {i \in DOMAIN es : named(i, "get", "request")}
        commitments == {i \in posts : es[i].commitment # NoValue}
        destinations == {es[i].dest : i \in {j \in posts : es[j].dest # NoValue}}
    IN [kind |-> "CrossChain",
        request_count |-> Cardinality(posts) + Cardinality(gets),
        response_count |->
            Cardinality({i \in DOMAIN es : named(i, "post", "response")})
                + Cardinality({i \in DOMAIN es : named(i, "get", "response")}),
        duplicate_commitments |->
            \E i, j \in commitments :
                i # j /\ es[i].commitment = es[j].commitment,
        multiple_destinations |-> Cardinality(destinations) > 1,
        high_value_transfer |->
            \E k \in DOMAIN ctx.state_changes :
                \/ Contains(ctx.state_changes[k].key, "Balance")
                \/ Contains(ctx.state_changes[k].key, "balance")]

EventIndicators ==
    OmnipoolIndicators \cup LiquidityDrainIndicators \cup CollateralIndicators
        \cup CrossChainIndicators \cup StateProofIndicators

\* no indicators: the input is a batch of contexts
NotExtracted == [kind |-> "none"]

EventDetectorOf(kind) ==
    CASE kind = "CrossChain" -> "Cross-Chain Bridge Detector"
      [] kind = "StateProof" -> "State Proof Verification Detector"
      [] kind = "Omnipool" -> "Omnipool Manipulation Detector"
      [] kind = "LiquidityDrain" -> "Liquidity Drain Detector"
      [] kind = "Collateral" -> "Collateral Manipulation Detector"

\* ----------------------------------------------- the detectors, called
pipeFrame ==
    /\ UNCHANGED <<connVars, procVars, extraction, history_calls>>
    /\ UNCHANGED <<config, is_running, event_tasks, txs_left, stopped>>
    /\ UNCHANGED <<min_severity, webhook_url, history_lock>>

detectFrame ==
    /\ pipeFrame
    /\ UNCHANGED database
    /\ UNCHANGED <<counters, alert_history, detector_stats, block_events>>
    /\ UNCHANGED <<contexts, indicators, detector, tx_pos, uuids, submitted>>

\* Detector::analyze_batch, the default: analyze_transaction on each context
FlashLoanAnalyzeBatch ==
    /\ detector = "FlashLoanDetector"
    /\ detections' = [i \in DOMAIN contexts |-> FlashLoanAnalyze(contexts[i])]
    /\ UNCHANGED recent_transactions
    /\ detectFrame

VolumeAnalyzeBatch ==
    /\ detector = "Volume Anomaly Detector"
    /\ detections' = [i \in DOMAIN contexts |-> VolumeAnalyze(contexts[i])]
    /\ UNCHANGED recent_transactions
    /\ detectFrame

\* MevDetector::analyze_batch
MevDetectorAnalyzeBatch ==
    /\ detector = "MevDetector"
    /\ detections' = MevAnalyzeBatch(contexts)
    /\ UNCHANGED recent_transactions
    /\ detectFrame

\* the default analyze_batch of the FrontRunningDetector; every
\* analyze_transaction appends to the history of the detector
FrontRunningDetectorAnalyzeBatch ==
    /\ detector = "FrontRunningDetector"
    /\ Len(recent_transactions) + Len(contexts) <= MaxRecent
    /\ detections' = FrontRunningAnalyzeBatch(recent_transactions, contexts)
    /\ recent_transactions' = FrontRunningHistory(recent_transactions, contexts)
    /\ detectFrame

\* analyze_transaction of a detector of hydration.rs or hyperbridge.rs,
\* from the indicators its analyze_events returned
EventDetectorAnalyze ==
    /\ indicators # NotExtracted
    /\ detector = EventDetectorOf(indicators.kind)
    /\ detections' = <<EventAnalyze(indicators)>>
    /\ UNCHANGED recent_transactions
    /\ detectFrame

\* Detector::analyze_batch, the default, of the CrossChainBridgeDetector:
\* analyze_transaction extracts the indicators of each context itself
CrossChainAnalyzeBatch ==
    /\ detector = "Cross-Chain Bridge Detector"
    /\ indicators = NotExtracted
    /\ detections' = [i \in DOMAIN contexts |->
                          CrossChainAnalyze(CrossChainAnalyzeEvents(contexts[i]))]
    /\ UNCHANGED recent_transactions
    /\ detectFrame

\* ------------------------------------------------- the block pipeline
\* the transactions extract_from_block returns: the index is the position
\* of the extrinsic in the block, the hash is its own
BlockTxKinds ==
    {[DefaultTx EXCEPT !.caller = o[1], !.pallet = o[2], !.call = o[3],
                       !.args_len = o[4]] :
        o \in {<<"A", "Dex", "swap", 0>>, <<"B", "Dex", "swap", 0>>,
               <<"A", "Balances", "transfer", 4>>,
               <<"B", "Balances", "transfer", 4>>,
               <<"A", "Staking", "bond", 4>>, <<"A", "XTokens", "transfer", 4>>,
               <<"A", "XcmAssets", "transfer", 0>>}}

Blocks ==
    {[i \in DOMAIN txs |-> ContextOf([txs[i] EXCEPT !.index = i - 1, !.hash = i])] :
        txs \in SeqsUpTo(BlockTxKinds, MaxBatch)}

\* the events extract_events returns for a block: none, or a borrow and a
\* repayment emitted by the first extrinsic and an event of no extrinsic
BlockEvents ==
    {<< >>,
     <<[pallet |-> "Lending", event_name |-> "Borrowed",
        extrinsic_index |-> SomeOf(0)],
       [pallet |-> "Balances", event_name |-> "Deposit",
        extrinsic_index |-> NoValue],
       [pallet |-> "Lending", event_name |-> "Repaid",
        extrinsic_index |-> SomeOf(0)]>>}

\* TransactionExtractor::create_context: the events of the transaction are
\* those with its extrinsic index, in their order
create_context(transaction, all_events) ==
    [transaction |-> transaction,
     events |-> SelectSeq(all_events,
                    LAMBDA e : e.extrinsic_index = SomeOf(transaction.index)),
     state_changes |-> << >>]

\* contexts handed to MempoolMonitor::analyze_transaction
MempoolContexts ==
    {ContextOf([DefaultTx EXCEPT !.caller = c[1], !.hash = c[2], !.index = c[3],
                                 !.call = "transfer", !.args_len = 4]) :
        c \in {<<"A", 11, 0>>, <<"B", 12, 1>>}}

\* analyze_transaction of the registered detectors, in their order, on a
\* context without events; history is recent_transactions with the
\* transaction of the context appended
RunDetectors(history, ctx) ==
    <<FlashLoanAnalyze(ctx), MevAnalyze(ctx), VolumeAnalyze(ctx),
      FrontRunningAnalyze(history, ctx),
      CrossChainAnalyze(NoIndicatorsOf("CrossChain")),
      StateProofAnalyze(NoIndicatorsOf("StateProof")),
      OmnipoolAnalyze(NoIndicatorsOf("Omnipool")),
      LiquidityDrainAnalyze(NoIndicatorsOf("LiquidityDrain")),
      CollateralAnalyze(NoIndicatorsOf("Collateral"))>>

\* Uuid::new_v4(): a value that was not drawn before
Uuid(n) == [src |-> "uuid", a |-> n, b |-> 0]

\* format!("mempool-{}-{}", block_number, index)
MempoolId(tx) == [src |-> "mempool", a |-> tx.block_number, b |-> tx.index]

\* process_transaction: the alerts of the detectors from d on, n uuids
\* having been drawn
RECURSIVE BlockAlerts(_, _, _, _)
BlockAlerts(rs, d, tx, n) ==
    IF d > Len(rs) THEN << >>
    ELSE IF Reported(rs[d])
         THEN <<[path |-> "block", detector |-> d,
                 alert |-> [id |-> Uuid(n + 1),
                            severity |-> SeverityOf(rs[d].confidence),
                            pattern |-> rs[d].pattern,
                            transaction_hash |-> tx.hash]]>>
              \o BlockAlerts(rs, d + 1, tx, n + 1)
         ELSE BlockAlerts(rs, d + 1, tx, n)

\* MempoolMonitor::confidence_to_severity
confidence_to_severity(confidence) ==
    IF confidence >= 900 THEN Critical
    ELSE IF confidence >= 700 THEN High
    ELSE IF confidence >= 500 THEN Medium
    ELSE Low

\* MempoolMonitor::analyze_transaction: the alerts of the detectors from d on
RECURSIVE MempoolAlerts(_, _, _)
MempoolAlerts(rs, d, tx) ==
    IF d > Len(rs) THEN << >>
    ELSE IF rs[d].detected
         THEN <<[path |-> "mempool", detector |-> d,
                 alert |-> [id |-> MempoolId(tx),
                            severity |-> confidence_to_severity(rs[d].confidence),
                            pattern |-> rs[d].pattern,
                            transaction_hash |-> tx.hash]]>>
              \o MempoolAlerts(rs, d + 1, tx)
         ELSE MempoolAlerts(rs, d + 1, tx)

\* trigger_alert for each of the alerts, in order
RECURSIVE TriggerAll(_, _)
TriggerAll(h, entries) ==
    IF entries = << >> THEN h
    ELSE TriggerAll(Triggered(h, Head(entries).alert), Tail(entries))

\* subscribe_to_blocks: the stream yields a block; blocks_processed += 1,
\* extract_from_block returns its transactions (none when it fails) and
\* transactions_analyzed += their number
ReceiveBlock ==
    /\ blocks_processed < MaxBlocks
    /\ tx_pos > Len(contexts)
    /\ blocks_processed' = blocks_processed + 1
    /\ contexts' \in Blocks
    /\ block_events' \in BlockEvents
    /\ transactions_analyzed' = transactions_analyzed + Len(contexts')
    /\ tx_pos' = 1
    /\ UNCHANGED <<alerts_triggered, alert_history, detector_stats>>
    /\ UNCHANGED <<indicators, detector, detections, recent_transactions,
                   uuids, submitted, database>>
    /\ pipeFrame

\* the same, were the Err of insert_transaction returned instead of logged
PipeProcessTransaction_StopsOnError ==
    /\ tx_pos <= Len(contexts)
    /\ LET tx == contexts[tx_pos].transaction
           ctx == ContextOf(tx)
           history == add_to_history(recent_transactions, tx)
           rs == IF database.client = Some /\ database.failing
                 THEN << >> ELSE RunDetectors(history, ctx)
           new == BlockAlerts(rs, 1, tx, uuids)
       IN /\ detector' = "block pipeline"
          /\ contexts' = [contexts EXCEPT ![tx_pos] = ctx]
          /\ detections' = rs
          /\ recent_transactions' = IF rs = << >> THEN recent_transactions
                                    ELSE history
          /\ submitted' = submitted \o new
          /\ uuids' = uuids + Len(new)
          /\ detector_stats' = StatsAfter(detector_stats, rs)
          /\ alerts_triggered' = alerts_triggered + Len(new)
          /\ alert_history' = TriggerAll(alert_history, new)
          /\ database' = Inserted(database, Len(new))
    /\ tx_pos' = tx_pos + 1
    /\ UNCHANGED <<blocks_processed, transactions_analyzed>>
    /\ UNCHANGED <<indicators, block_events>>
    /\ pipeFrame

\* process_transaction for the next transaction of the block; contexts
\* keeps the context that was handed to the detectors
PipeProcessTransaction ==
    /\ tx_pos <= Len(contexts)
    /\ LET tx == contexts[tx_pos].transaction
           ctx == ContextOf(tx)
           history == add_to_history(recent_transactions, tx)
           rs == RunDetectors(history, ctx)
           new == BlockAlerts(rs, 1, tx, uuids)
       IN /\ detector' = "block pipeline"
          /\ contexts' = [contexts EXCEPT ![tx_pos] = ctx]
          /\ detections' = rs
          /\ recent_transactions' = history
          /\ submitted' = submitted \o new
          /\ uuids' = uuids + Len(new)
          /\ detector_stats' = StatsAfter(detector_stats, rs)
          /\ alerts_triggered' = alerts_triggered + Len(new)
          /\ alert_history' = TriggerAll(alert_history, new)
          /\ database' = Inserted(database, Len(new))
    /\ tx_pos' = tx_pos + 1
    /\ UNCHANGED <<blocks_processed, transactions_analyzed>>
    /\ UNCHANGED <<indicators, block_events>>
    /\ pipeFrame

\* MempoolMonitor::analyze_transaction(ctx), the monitor holding the
\* detectors and the AlertManager of the engine
MempoolAnalyzeTransaction(ctx) ==
    /\ Len(recent_transactions) < MaxPending
    /\ LET tx == ctx.transaction
           history == add_to_history(recent_transactions, tx)
           rs == RunDetectors(history, ctx)
           new == MempoolAlerts(rs, 1, tx)
       IN /\ detector' = "MempoolMonitor"
          /\ detections' = rs
          /\ recent_transactions' = history
          /\ submitted' = submitted \o new
          /\ alert_history' = TriggerAll(alert_history, new)
    /\ UNCHANGED <<counters, contexts, indicators, tx_pos, uuids, detector_stats,
                   block_events, database>>
    /\ pipeFrame

\* ---------------------------------------------------------- initial states
\* ConnectionManager::new
InitConn ==
    /\ client = None
    /\ client_lock = 0
    /\ reconnect_attempts = 0
    /\ should_reconnect = TRUE

\* AlertManager::new(min_severity, webhook_url)
InitAlerts(sev, url) ==
    /\ min_severity = sev
    /\ webhook_url = url
    /\ alert_history = << >>
    /\ history_lock = 0

\* EngineState::default
InitState ==
    /\ is_running = FALSE
    /\ blocks_processed = 0
    /\ transactions_analyzed = 0
    /\ alerts_triggered = 0
    /\ event_tasks = 0
    /\ txs_left = [k \in RestartTasks |-> 0]
    /\ stopped = FALSE

\* every thread is idle, no task is spawned
InitProcs ==
    /\ pc = [p \in Procs |-> IF p \in Threads THEN "idle" ELSE "unspawned"]
    /\ op = [p \in Procs |-> "none"]
    /\ max_attempts = [p \in Procs |-> 0]
    /\ attempt = [p \in Procs |-> 0]
    /\ backoff_secs = [p \in Procs |-> 0]
    /\ alert = [p \in Procs |-> NoAlert]
    /\ result = [p \in Procs |-> "none"]
    /\ prev = [p \in Procs |-> "none"]
    /\ made = [p \in Procs |-> 0]
    /\ was_running = [p \in Procs |-> FALSE]

\* no batch, no block, nothing analysed
InitDetectors ==
    /\ contexts = << >>
    /\ indicators = NotExtracted
    /\ detector = "none"
    /\ detections = << >>
    /\ recent_transactions = << >>
    /\ tx_pos = 1
    /\ uuids = 0
    /\ detector_stats = [key \in StatKeys |-> 0]
    /\ block_events = << >>
    /\ history_calls = [t \in Threads |-> NoHistoryCall]
    /\ extraction = NoExtraction
    /\ submitted = << >>

\* MonitorConfig::default, reduced to the fields start() and new() read,
\* with the retry budget cut to MaxAttempts
DefaultConfig ==
    [max_reconnect_attempts |-> MaxAttempts, enable_blocks |-> TRUE,
     enable_events |-> TRUE, min_alert_severity |-> Medium,
     alert_webhook |-> None]

\* the MonitorConfig values the engine is run with: the default and the
\* configurations that differ from it in one field
Configs ==
    {DefaultConfig,
     [DefaultConfig EXCEPT !.max_reconnect_attempts = 0],
     [DefaultConfig EXCEPT !.enable_blocks = FALSE],
     [DefaultConfig EXCEPT !.enable_events = FALSE],
     [DefaultConfig EXCEPT !.min_alert_severity = Low]}

\* ------------------------- one caller that starts, stops and starts again
RestartNext ==
    \/ Start(1)
    \/ StartGuard(1)
    \/ ConnectFail(1)
    \/ ConnectStore(1)
    \/ ConnectReset(1)
    \/ RetryRecord(1)
    \/ RetrySleep(1)
    \/ StartConnFail(1)
    \/ SpawnBlockTask(1, RestartTasks)
    \/ StartEventMonitoring(1)
    \/ Stop(1)
    \/ StopFlag(1)
    \/ DisconnectStore(1)
    \/ DisconnectClear(1)
    \/ \E k \in RestartTasks : Subscribe(k)
    \/ \E k \in RestartTasks : BlockNext(k)
    \/ \E k \in RestartTasks : StreamEnd(k)
    \/ \E k \in RestartTasks : Extract(k)
    \/ \E k \in RestartTasks : ProcessTransaction(k)
    \/ EventTaskEnd

RestartInit ==
    /\ config = DefaultConfig
    /\ InitConn /\ InitAlerts(Medium, None) /\ InitState /\ InitProcs
    /\ InitDetectors
    /\ database = NoDatabase

SpecRestart == RestartInit /\ [][RestartNext]_vars

\* ------------------------------------------------- ConnectionManager alone
ConnInit ==
    /\ config = DefaultConfig
    /\ InitConn /\ InitAlerts(Medium, None) /\ InitState /\ InitProcs
    /\ InitDetectors
    /\ database = NoDatabase

ConnNext ==
    \/ \E t \in Threads : Connect(t)
    \/ \E t \in Threads : ConnectFail(t)
    \/ \E t \in Threads : ConnectStore(t)
    \/ \E t \in Threads : ConnectReset(t)
    \/ \E t \in Threads : \E n \in 0..MaxAttempts : ConnectWithRetry(t, n)
    \/ \E t \in Threads : RetryRecord(t)
    \/ \E t \in Threads : RetrySleep(t)
    \/ \E t \in Threads : \E b \in BOOLEAN : SetReconnect(t, b)
    \/ \E t \in Threads : Disconnect(t)
    \/ \E t \in Threads : DisconnectStore(t)
    \/ \E t \in Threads : DisconnectClear(t)

SpecConn == ConnInit /\ [][ConnNext]_vars

\* --------------------- one caller of connect_with_retry with a large budget
RetryNext ==
    \/ ConnectWithRetry(1, MaxBudget)
    \/ ConnectFail(1)
    \/ ConnectStore(1)
    \/ ConnectReset(1)
    \/ RetryRecord(1)
    \/ RetrySleep(1)

SpecRetry == ConnInit /\ [][RetryNext]_vars

\* ------------------------------------------------------ AlertManager alone
AlertInit ==
    /\ config = DefaultConfig
    /\ \E sev \in AlertSeverity, url \in {None, Some} : InitAlerts(sev, url)
    /\ InitConn /\ InitState /\ InitProcs
    /\ InitDetectors
    /\ database = NoDatabase

AlertNext ==
    \/ \E t \in Threads : \E a \in Alerts : TriggerAlert(t, a)
    \/ \E t \in Threads : TriggerFilter(t)
    \/ \E t \in Threads : TriggerPush(t)
    \/ \E t \in Threads : WebhookDone(t)
    \/ \E t \in Threads : \E limit \in 0..MaxLimit : GetRecentAlerts(t, limit)
    \/ \E t \in Threads : GetAlertCounts(t)
    \/ \E t \in Threads : ClearHistory(t)
    \/ \E t \in Threads : ClearWrite(t)

SpecAlert == AlertInit /\ [][AlertNext]_vars

\* -------------------------------------------------------------- the engine
\* MonitoringEngine::new(config)
Init ==
    /\ config \in Configs
    /\ InitConn
    /\ InitAlerts(config.min_alert_severity, config.alert_webhook)
    /\ InitState
    /\ InitProcs
    /\ InitDetectors
    /\ database = NoDatabase

Next ==
    \/ \E t \in Threads : Start(t)
    \/ \E t \in Threads : StartGuard(t)
    \/ \E t \in Threads : ConnectFail(t)
    \/ \E t \in Threads : ConnectStore(t)
    \/ \E t \in Threads : ConnectReset(t)
    \/ \E t \in Threads : RetryRecord(t)
    \/ \E t \in Threads : RetrySleep(t)
    \/ \E t \in Threads : StartConnFail(t)
    \/ \E t \in Threads : StartBlockMonitoring(t)
    \/ \E t \in Threads : StartEventMonitoring(t)
    \/ \E t \in Threads : Stop(t)
    \/ \E t \in Threads : StopFlag(t)
    \/ \E t \in Threads : DisconnectStore(t)
    \/ \E t \in Threads : DisconnectClear(t)
    \/ \E k \in Tasks : Subscribe(k)
    \/ \E k \in Tasks : BlockNext(k)
    \/ \E k \in Tasks : StreamEnd(k)
    \/ \E k \in Tasks : Extract(k)
    \/ \E k \in Tasks : ProcessTransaction(k)
    \/ EventTaskEnd

Spec == Init /\ [][Next]_vars

\* ------------------------------------------------- the detectors alone
\* a fresh detector, and the batch of contexts (for an event-data detector
\* the indicators of one context) it is going to analyse
DetectInit ==
    /\ config = DefaultConfig
    /\ InitConn /\ InitAlerts(Medium, None) /\ InitState /\ InitProcs
    /\ detections = << >>
    /\ recent_transactions = << >>
    /\ tx_pos = 1
    /\ uuids = 0
    /\ detector_stats = [key \in StatKeys |-> 0]
    /\ block_events = << >>
    /\ history_calls = [t \in Threads |-> NoHistoryCall]
    /\ extraction = NoExtraction
    /\ database = NoDatabase
    /\ submitted = << >>
    /\ \/ /\ detector = "FlashLoanDetector"
          /\ contexts \in {<<c>> : c \in EventContexts \cup LoanContexts}
          /\ indicators = NotExtracted
       \/ /\ detector = "Volume Anomaly Detector"
          /\ contexts \in {<<c>> : c \in VolumeContexts}
          /\ indicators = NotExtracted
       \/ /\ detector \in {"MevDetector", "FrontRunningDetector"}
          /\ contexts \in Batches \cup OverlapBatches
          /\ indicators = NotExtracted
       \/ /\ detector = "Cross-Chain Bridge Detector"
          /\ contexts \in {<<c>> : c \in BridgeContexts}
          /\ indicators = NotExtracted
       \/ /\ indicators \in EventIndicators
          /\ detector = EventDetectorOf(indicators.kind)
          /\ contexts = << >>

DetectNext ==
    \/ FlashLoanAnalyzeBatch
    \/ MevDetectorAnalyzeBatch
    \/ VolumeAnalyzeBatch
    \/ FrontRunningDetectorAnalyzeBatch
    \/ EventDetectorAnalyze
    \/ CrossChainAnalyzeBatch

SpecDetect == DetectInit /\ [][DetectNext]_vars

\* ------------- process_transaction, one reported detection at a time
countFrame ==
    /\ UNCHANGED <<connVars, config, is_running, event_tasks, txs_left, stopped>>
    /\ UNCHANGED <<min_severity, webhook_url, history_lock>>
    /\ UNCHANGED <<blocks_processed, transactions_analyzed>>
    /\ UNCHANGED <<op, max_attempts, attempt, backoff_secs, result, prev, made,
                   was_running>>
    /\ UNCHANGED <<contexts, indicators, detector, detections,
                   recent_transactions, tx_pos, uuids, block_events, database,
                   extraction, history_calls, submitted>>

\* (mutant) the reported detection is not counted
CountReported_NotCounted(k) ==
    /\ pc[k] = "process"
    /\ alerts_triggered < MaxAlerts
    /\ \E d \in {1, 3} : \E r \in {x \in DetectionResults : Reported(x)} :
          /\ detector_stats' =
                 StatsAfter(detector_stats,
                     [i \in DOMAIN DetectorNames |->
                         IF i = d THEN r ELSE [detected |-> FALSE, confidence |-> 0]])
          /\ alert' = [alert EXCEPT ![k] = [severity |-> SeverityOf(r.confidence)]]
    /\ pc' = [pc EXCEPT ![k] = "trigger"]
    /\ UNCHANGED <<alerts_triggered, alert_history>>
    /\ countFrame

\* the loop of process_transaction on a detector whose result is reported
\* (the FlashLoanDetector, whose name() is no key of detector_stats, or
\* the Volume Anomaly Detector, whose name() is one): under the write
\* guard of the state the detector's entry and alerts_triggered are
\* incremented; the guard is dropped and the alert is built
CountReported(k) ==
    /\ pc[k] = "process"
    /\ alerts_triggered < MaxAlerts
    /\ \E d \in {1, 3} : \E r \in {x \in DetectionResults : Reported(x)} :
          /\ detector_stats' =
                 StatsAfter(detector_stats,
                     [i \in DOMAIN DetectorNames |->
                         IF i = d THEN r ELSE [detected |-> FALSE, confidence |-> 0]])
          /\ alert' = [alert EXCEPT ![k] = [severity |-> SeverityOf(r.confidence)]]
    /\ alerts_triggered' = alerts_triggered + 1
    /\ pc' = [pc EXCEPT ![k] = "trigger"]
    /\ UNCHANGED alert_history
    /\ countFrame

\* alert_manager.trigger_alert(alert).await, then the next detector
TriggerReported(k) ==
    /\ pc[k] = "trigger"
    /\ history_lock = 0
    /\ alert_history' = Triggered(alert_history, alert[k])
    /\ alert' = [alert EXCEPT ![k] = NoAlert]
    /\ pc' = [pc EXCEPT ![k] = "process"]
    /\ UNCHANGED <<alerts_triggered, detector_stats>>
    /\ countFrame

\* a subscription task at the head of the loop of process_transaction, in
\* an engine of any minimum severity
CountInit ==
    /\ config = DefaultConfig
    /\ \E sev \in AlertSeverity : InitAlerts(sev, None)
    /\ InitConn /\ InitState /\ InitDetectors
    /\ database = NoDatabase
    /\ pc = [p \in Procs |-> IF p \in Threads THEN "idle"
                             ELSE IF p \in Tasks THEN "process"
                             ELSE "unspawned"]
    /\ op = [p \in Procs |-> "none"]
    /\ max_attempts = [p \in Procs |-> 0]
    /\ attempt = [p \in Procs |-> 0]
    /\ backoff_secs = [p \in Procs |-> 0]
    /\ alert = [p \in Procs |-> NoAlert]
    /\ result = [p \in Procs |-> "none"]
    /\ prev = [p \in Procs |-> "none"]
    /\ made = [p \in Procs |-> 0]
    /\ was_running = [p \in Procs |-> FALSE]

CountNext ==
    \E k \in Tasks :
        \/ CountReported(k)
        \/ TriggerReported(k)

SpecCount == CountInit /\ [][CountNext]_vars

\* ------------------------------------ TransactionExtractor, on one block
\* what extrinsics.iter() yields for an extrinsic: Err when its bytes do
\* not decode, otherwise the details parse_extrinsic reads (Ok, or the Err
\* its signature allows)
Extrinsics ==
    {[kind |-> "ok", tx |-> tx] : tx \in BlockTxKinds}
        \cup {[kind |-> k, tx |-> DefaultTx] : k \in {"parse_error", "decode_error"}}

\* the loop of extract_from_block from position i on: `ext_details?`
\* returns the decode error of the iterator from the whole call, an Err of
\* parse_extrinsic is logged and skipped, an Ok is pushed with
\* index = position
RECURSIVE ParseFrom(_, _, _)
ParseFrom(extrinsics, i, transactions) ==
    IF i > Len(extrinsics) THEN [ok |-> TRUE, transactions |-> transactions]
    ELSE IF extrinsics[i].kind = "decode_error"
         THEN [ok |-> FALSE, transactions |-> << >>]
    ELSE IF extrinsics[i].kind = "parse_error"
         THEN ParseFrom(extrinsics, i + 1, transactions)
    ELSE ParseFrom(extrinsics, i + 1,
             Append(transactions,
                    [extrinsics[i].tx EXCEPT !.index = i - 1, !.hash = i]))

extract_from_block(extrinsics) == ParseFrom(extrinsics, 1, << >>)

ExtractFromBlock ==
    /\ extraction.result = << >>
    /\ extraction' = [extraction EXCEPT
                         !.result = <<extract_from_block(extraction.extrinsics)>>]
    /\ UNCHANGED <<connVars, procVars, alertVars, history_calls, database>>
    /\ UNCHANGED <<config, is_running, counters, event_tasks, txs_left, stopped>>
    /\ UNCHANGED <<contexts, indicators, detector, detections,
                   recent_transactions, tx_pos, uuids, detector_stats,
                   block_events, submitted>>

ExtractInit ==
    /\ config = DefaultConfig
    /\ InitConn /\ InitAlerts(Medium, None) /\ InitState /\ InitProcs
    /\ contexts = << >>
    /\ indicators = NotExtracted
    /\ detector = "none"
    /\ detections = << >>
    /\ recent_transactions = << >>
    /\ tx_pos = 1
    /\ uuids = 0
    /\ detector_stats = [key \in StatKeys |-> 0]
    /\ block_events = << >>
    /\ history_calls = [t \in Threads |-> NoHistoryCall]
    /\ database = NoDatabase
    /\ submitted = << >>
    /\ extraction \in [extrinsics : SeqsUpTo(Extrinsics, MaxBatch),
                        result : {<< >>}]

ExtractNext == ExtractFromBlock

SpecExtract == ExtractInit /\ [][ExtractNext]_vars

\* ------------- concurrent analyze_transaction calls on one
\* FrontRunningDetector.  recent_transactions is an Arc<RwLock<Vec<_>>>:
\* a call holds the write guard from the write().await of add_to_history
\* to its return, and a read guard during analyze_mempool_pattern
WriteGuardHeld ==
    \E t \in Threads : history_calls[t].pc \in {"write_guard", "removed"}

ReadGuardHeld == \E t \in Threads : history_calls[t].pc = "read_guard"

historyFrame ==
    /\ UNCHANGED <<connVars, procVars, extraction, database>>
    /\ UNCHANGED <<config, is_running, event_tasks, txs_left, stopped>>
    /\ UNCHANGED <<min_severity, webhook_url, history_lock>>
    /\ UNCHANGED <<counters, alert_history, detector_stats, block_events>>
    /\ UNCHANGED <<contexts, indicators, detector, detections, tx_pos, uuids,
                   submitted>>

\* analyze_transaction(ctx) is called: add_to_history awaits the write guard
HistoryCall(t) ==
    /\ history_calls[t].pc = "idle"
    /\ history_calls[t].calls < MaxCalls
    /\ history_calls' = [history_calls EXCEPT ![t] =
           [pc |-> "write_await",
            tx |-> [DefaultTx EXCEPT
                       !.hash = HistoryCap + MaxCalls * (t - 1)
                                   + history_calls[t].calls + 1],
            calls |-> history_calls[t].calls + 1, found |-> << >>]]
    /\ UNCHANGED recent_transactions
    /\ historyFrame

\* the same, were the guard not exclusive
HistoryWrite_Shared(t) ==
    /\ history_calls[t].pc = "write_await"
    /\ history_calls' = [history_calls EXCEPT ![t].pc = "write_guard",
                                              ![t].found = recent_transactions]
    /\ UNCHANGED recent_transactions
    /\ historyFrame

\* let mut history = self.recent_transactions.write().await;
HistoryWrite(t) ==
    /\ history_calls[t].pc = "write_await"
    /\ ~WriteGuardHeld /\ ~ReadGuardHeld
    /\ history_calls' = [history_calls EXCEPT ![t].pc = "write_guard",
                                              ![t].found = recent_transactions]
    /\ UNCHANGED recent_transactions
    /\ historyFrame

\* if history.len() >= 100 { history.remove(0); }
HistoryRemove(t) ==
    /\ history_calls[t].pc = "write_guard"
    /\ recent_transactions' =
           IF Len(recent_transactions) >= HistoryCap
           THEN Tail(recent_transactions) ELSE recent_transactions
    /\ history_calls' = [history_calls EXCEPT ![t].pc = "removed"]
    /\ historyFrame

\* history.push(tx.clone()); the guard is dropped at the return
HistoryPush(t) ==
    /\ history_calls[t].pc = "removed"
    /\ recent_transactions' = Append(recent_transactions, history_calls[t].tx)
    /\ history_calls' = [history_calls EXCEPT ![t].pc = "read_await"]
    /\ historyFrame

\* analyze_mempool_pattern: let history = self.recent_transactions.read().await;
HistoryRead(t) ==
    /\ history_calls[t].pc = "read_await"
    /\ ~WriteGuardHeld
    /\ history_calls' = [history_calls EXCEPT ![t].pc = "read_guard"]
    /\ UNCHANGED recent_transactions
    /\ historyFrame

\* analyze_transaction returns
HistoryReturn(t) ==
    /\ history_calls[t].pc = "read_guard"
    /\ history_calls' = [history_calls EXCEPT ![t].pc = "idle"]
    /\ UNCHANGED recent_transactions
    /\ historyFrame

\* a detector whose history is empty, one short of full, or full
HistoryInit ==
    /\ config = DefaultConfig
    /\ InitConn /\ InitAlerts(Medium, None) /\ InitState /\ InitProcs
    /\ contexts = << >>
    /\ indicators = NotExtracted
    /\ detector = "FrontRunningDetector"
    /\ detections = << >>
    /\ tx_pos = 1
    /\ uuids = 0
    /\ detector_stats = [key \in StatKeys |-> 0]
    /\ block_events = << >>
    /\ history_calls = [t \in Threads |-> NoHistoryCall]
    /\ extraction = NoExtraction
    /\ database = NoDatabase
    /\ submitted = << >>
    /\ \E n \in {0, HistoryCap - 1, HistoryCap} :
           recent_transactions = [i \in 1..n |-> [DefaultTx EXCEPT !.hash = i]]

HistoryNext ==
    \E t \in Threads :
        \/ HistoryCall(t)
        \/ HistoryWrite(t)
        \/ HistoryRemove(t)
        \/ HistoryPush(t)
        \/ HistoryRead(t)
        \/ HistoryReturn(t)

SpecHistory == HistoryInit /\ [][HistoryNext]_vars

\* ------------------------------- the block pipeline and the MempoolMonitor
PipeInit ==
    /\ config = DefaultConfig
    /\ InitAlerts(Medium, None)
    /\ InitConn /\ InitState /\ InitProcs
    /\ InitDetectors
    /\ database \in Databases

PipeNext ==
    \/ ReceiveBlock
    \/ PipeProcessTransaction
    \/ \E ctx \in MempoolContexts : MempoolAnalyzeTransaction(ctx)

SpecPipe == PipeInit /\ [][PipeNext]_vars

\* ------------------------------------------- claims: ConnectionManager
\* The step in which thread t returns from the public operation o
Returns(t, o) == pc[t] # "idle" /\ pc'[t] = "idle" /\ op[t] = o

RetryFailReturn(t) ==
    Returns(t, "connect_with_retry") /\ max_attempts[t] >= 1 /\ result'[t] # "Ok"

C2_SuccessResets ==
    [][\A t \in Threads :
          /\ (Returns(t, "connect") \/ Returns(t, "connect_with_retry"))
                /\ result'[t] = "Ok"
             => client' = Some /\ reconnect_attempts' = 0
          /\ pc[t] = "connect_reset" /\ pc'[t] # "connect_reset"
             => client' = Some /\ reconnect_attempts' = 0 /\ result'[t] = "Ok"]_vars

\* success as the last attempt of connect_with_retry, after failures
C2_Witness ==
    \E t \in Threads :
        /\ pc[t] = "idle" /\ prev[t] = "connect_with_retry" /\ result[t] = "Ok"
        /\ made[t] = MaxAttempts /\ MaxAttempts > 1
        /\ client = Some /\ reconnect_attempts = 0

\* the step in which the connection attempt of connect() fails
ConnectFails(t) ==
    pc[t] = "connect_await" /\ pc'[t] \notin {"connect_await", "connect_reset"}

\* C3: a connect() whose attempt times out or fails leaves the stored
\* client, the attempt counter and the reconnect flag as they were (so a
\* disconnected manager stays disconnected), and a direct call returns
\* ConnectionError.
C3_FailedConnectFrame ==
    [][\A t \in Threads :
          ConnectFails(t) =>
              /\ ConnState' = ConnState
              /\ (client = None => client' = None)
              /\ (op[t] = "connect" => pc'[t] = "idle" /\ result'[t] = "ConnectionError")]_vars

C3_Witness ==
    \E t \in Threads :
        /\ pc[t] = "idle" /\ prev[t] = "connect" /\ result[t] = "ConnectionError"
        /\ client = None

Disconnected == client = None /\ should_reconnect = FALSE

\* the steps of disconnect()
DisconnectSteps(t) ==
    pc[t] \in {"disconnect_store", "disconnect_clear"} /\ pc'[t] # pc[t]

\* C8: disconnect() stores false in should_reconnect, then clears the client
\* and returns, touching nothing else; on a manager that is already
\* disconnected (client empty, flag false) its steps change nothing.
C8_DisconnectIdempotent ==
    [][\A t \in Threads :
          /\ pc[t] = "disconnect_store" /\ pc'[t] # pc[t]
             => should_reconnect' = FALSE /\ UNCHANGED <<client, reconnect_attempts>>
          /\ pc[t] = "disconnect_clear" /\ pc'[t] # pc[t]
             => /\ client' = None /\ UNCHANGED <<should_reconnect, reconnect_attempts>>
                /\ pc'[t] = "idle" /\ result'[t] = "Ok"
          /\ DisconnectSteps(t) /\ Disconnected => ConnState' = ConnState]_vars

\* two disconnect() calls have returned and nothing else is in progress
C8_Witness ==
    /\ \E t, u \in Threads :
          /\ t # u
          /\ pc[t] = "idle" /\ prev[t] = "disconnect"
          /\ pc[u] = "idle" /\ prev[u] = "disconnect"
    /\ \A t \in Threads : pc[t] = "idle"
    /\ Disconnected

\* ------------------------------------------------- claims: AlertManager
\* the step in which a trigger_alert call drops its alert
DropStep(p) ==
    pc[p] = "trigger_filter" /\ alert[p].severity < min_severity /\ pc'[p] # pc[p]

\* C9: after every step each alert in the history has severity >= the
\* configured minimum; a trigger_alert with a severity below the minimum
\* returns at once: the history and the counts stay as they are, no guard
\* is taken and no webhook POST is started.
C9_SeverityFilter ==
    [][/\ \A i \in DOMAIN alert_history' :
             alert_history'[i].severity >= min_severity'
       /\ \A p \in Threads :
            DropStep(p) =>
               /\ alert_history' = alert_history
               /\ AlertCounts(alert_history') = AlertCounts(alert_history)
               /\ history_lock' = history_lock
               /\ pc'[p] = "idle" /\ result'[p] = "Dropped"]_vars

\* a below-minimum alert was dropped, a later one is in the history
C9_Witness ==
    /\ min_severity > Low
    /\ alert_history # << >>
    /\ \E t \in Threads :
          /\ pc[t] = "idle" /\ prev[t] = "trigger_alert"
          /\ result[t] = "Dropped"

PushStep(p) == pc[p] = "trigger_push" /\ pc'[p] # pc[p]
ClearStep(p) == pc[p] = "clear" /\ pc'[p] # pc[p]

\* C10: an alert with severity >= the minimum goes on to one push, which
\* appends it once at the end of the history; the history loses alerts only
\* in clear_history, and after that step it is empty: get_recent_alerts
\* returns nothing for every limit and the total of get_alert_counts is 0.
C10_AppendOnlyUntilClear ==
    [][/\ \A p \in Threads :
            /\ pc[p] = "trigger_filter" /\ alert[p].severity >= min_severity
                  /\ pc'[p] # pc[p]
               => pc'[p] = "trigger_push" /\ alert'[p] = alert[p]
            /\ PushStep(p) =>
                  /\ alert_history' = Append(alert_history, alert[p])
                  /\ pc'[p] \in {"idle", "webhook"}
                  /\ pc'[p] = "idle" => result'[p] = "Ok"
            /\ ClearStep(p) =>
                  /\ alert_history' = << >>
                  /\ \A l \in 0..MaxLimit : RecentAlerts(alert_history', l) = << >>
                  /\ Total(AlertCounts(alert_history')) = 0
       /\ \/ alert_history' = alert_history
          \/ \E p \in Threads : PushStep(p)
          \/ \E p \in Threads : ClearStep(p)]_vars

\* an accepted alert was stored and a later clear_history removed it
C10_Witness ==
    /\ alert_history = << >>
    /\ \E t, u \in Threads :
          /\ pc[t] = "idle" /\ prev[t] = "clear_history"
          /\ pc[u] = "idle" /\ prev[u] = "trigger_alert"
          /\ result[u] = "Ok"

\* --------------------------------------------------- claims: the engine
\* the step in which start() tests the running flag
GuardStep(t) == pc[t] = "start_guard" /\ pc'[t] # pc[t]

\* no task is spawned and none ends
TasksUnchanged == (\A k \in Tasks : pc'[k] = pc[k]) /\ event_tasks' = event_tasks

StartConnectionFails(t) ==
    /\ op[t] = "start"
    /\ \/ pc[t] = "connect_await" /\ ~InRetry(t)
             /\ pc'[t] \notin {"connect_await", "connect_reset"}
       \/ pc[t] = "retry_record" /\ pc'[t] \notin {"retry_record", "retry_sleep"}

\* C5: when the connection attempt of start() fails, start() goes on to
\* reset the running flag and return ConnectionError: is_running is false
\* when it returns, and from the guard to the return it spawns no task.
C5_StartConnectionFailure ==
    [][\A t \in Threads :
          /\ StartConnectionFails(t) => pc'[t] = "start_connfail" /\ TasksUnchanged
          /\ pc[t] = "start_connfail" /\ pc'[t] # pc[t] =>
                /\ pc'[t] = "idle" /\ result'[t] = "ConnectionError"
                /\ is_running' = FALSE
                /\ TasksUnchanged
          /\ op[t] = "start" /\ pc'[t] # pc[t]
                /\ pc[t] \in {"start_guard", "connect_await", "retry_record",
                              "retry_sleep", "connect_reset"}
             => TasksUnchanged]_vars

\* a start() with a retry budget has returned ConnectionError after its
\* last attempt; the engine is not running and has no task
C5_Witness ==
    \E t \in Threads :
        /\ pc[t] = "idle" /\ prev[t] = "start" /\ result[t] = "ConnectionError"
        /\ config.max_reconnect_attempts = MaxAttempts
        /\ reconnect_attempts = MaxAttempts
        /\ client = None
        /\ ~is_running
        /\ \A k \in Tasks : pc[k] = "unspawned"
        /\ event_tasks = 0

\* C6: once a stop() has returned (no start() in progress then, none called
\* since), no step changes blocks_processed, transactions_analyzed,
\* alerts_triggered or the alert history.
C6_NoProcessingAfterStop ==
    [][stopped => UNCHANGED <<blocks_processed, transactions_analyzed,
                              alerts_triggered, alert_history>>]_vars

\* stop() called by t found the engine not running
FoundStopped(t) == IF pc[t] = "stop_flag" THEN ~is_running ELSE ~was_running[t]

\* a step of the stop() called by t
StopStep(t) == op[t] = "stop" /\ pc[t] # "idle" /\ pc'[t] # pc[t]

\* C7 as stated: no step of a stop() that found the engine not running
\* changes the running flag, the counters, the stored client or the
\* reconnect flag.
C7_StopIsNoOp ==
    [][\A t \in Threads :
          StopStep(t) /\ FoundStopped(t) =>
              UNCHANGED <<is_running, counters, client, should_reconnect>>]_vars

\* C7, amended: stop() returns Ok; its first step leaves the running flag
\* false, its other steps do not touch the flag, and no step touches the
\* counters.  When it found the engine not running the flag is unchanged,
\* the client is cleared and the reconnect flag ends false, so that every
\* step is a no-op exactly when the manager was already disconnected with
\* reconnection disabled (as after an earlier stop()).
C7_StopOnStoppedEngine ==
    [][\A t \in Threads :
          StopStep(t) =>
             /\ pc'[t] = "idle" => result'[t] = "Ok"
             /\ counters' = counters
             /\ IF pc[t] = "stop_flag" THEN is_running' = FALSE
                                       ELSE is_running' = is_running
             /\ client' \in {client, None}
             /\ should_reconnect' \in {should_reconnect, FALSE}
             /\ pc'[t] = "idle" => client' = None /\ should_reconnect' = FALSE
             /\ FoundStopped(t) /\ pc[t] = "stop_flag" => is_running' = is_running
             /\ FoundStopped(t) /\ Disconnected =>
                   UNCHANGED <<is_running, counters, client, should_reconnect>>]_vars

\* two stop() calls have returned, blocks were processed before and the
\* engine is stopped and disconnected
C7_Witness ==
    /\ \E t, u \in Threads :
          /\ t # u
          /\ pc[t] = "idle" /\ prev[t] = "stop" /\ result[t] = "Ok"
          /\ pc[u] = "idle" /\ prev[u] = "stop" /\ result[u] = "Ok"
    /\ ~is_running /\ Disconnected
    /\ blocks_processed > 0

\* ------------------------------------- claims: AlertManager, continued
\* C11: for every limit, get_recent_alerts(limit) returns
\* min(limit, length of the history) alerts, element j being the j-th alert
\* counted from the newest end of the history; limit 0 gives the empty list.
C11_RecentNewestFirst ==
    \A l \in 0..MaxLimit :
        LET r == RecentAlerts(alert_history, l)
            n == Len(alert_history)
        IN /\ Len(r) = Min(l, n)
           /\ \A j \in 1..Len(r) : r[j] = alert_history[n - j + 1]
           /\ (l = 0 => r = << >>)

\* get_recent_alerts has returned on a full history whose newest and
\* oldest alerts differ
C11_Witness ==
    /\ Len(alert_history) = MaxHistory
    /\ alert_history[1] # alert_history[Len(alert_history)]
    /\ \E t \in Threads : pc[t] = "idle" /\ prev[t] = "get_recent_alerts"

\* C12: while the webhook POST of one trigger_alert is in flight, the push
\* of another trigger_alert (room in the history permitting) and the read
\* accessors of an idle caller can take their step.
C12_WebhookDoesNotBlock ==
    \A p, q \in Threads :
        pc[p] = "webhook" /\ q # p =>
            /\ pc[q] = "trigger_push" /\ Len(alert_history) < MaxHistory
                  => ENABLED TriggerPush(q)
            /\ pc[q] = "idle" =>
                  /\ ENABLED GetAlertCounts(q)
                  /\ \A l \in 0..MaxLimit : ENABLED GetRecentAlerts(q, l)

\* ---------------------------------------- claims: the block pipeline
\* the entries process_transaction has appended to `submitted` in a step
NewSubmitted == SubSeq(submitted', Len(submitted) + 1, Len(submitted'))

\* C13: in the block pipeline, for each transaction and each detector, one
\* alert is submitted to the AlertManager if and only if the result of the
\* detector has detected = true and a confidence above 0.5 (none otherwise),
\* and the severity of that alert is Critical from 0.9, High from 0.75,
\* Medium from 0.6 and Low below.
C13_AlertIffReported ==
    [][tx_pos' = tx_pos + 1 =>
          /\ Len(submitted') >= Len(submitted)
          /\ SubSeq(submitted', 1, Len(submitted)) = submitted
          /\ \A d \in DOMAIN detections' :
                LET r == detections'[d]
                    mine == {i \in DOMAIN NewSubmitted :
                                NewSubmitted[i].detector = d}
                IN /\ Cardinality(mine)
                         = (IF r.detected /\ r.confidence > 500 THEN 1 ELSE 0)
                   /\ \A i \in mine :
                         /\ NewSubmitted[i].path = "block"
                         /\ NewSubmitted[i].alert.transaction_hash
                               = contexts[tx_pos].transaction.hash
                         /\ NewSubmitted[i].alert.severity
                               = (IF r.confidence >= 900 THEN Critical
                                  ELSE IF r.confidence >= 750 THEN High
                                  ELSE IF r.confidence >= 600 THEN Medium
                                  ELSE Low)
          /\ \A i \in DOMAIN NewSubmitted :
                NewSubmitted[i].detector \in DOMAIN detections'
      ]_vars

\* process_transaction has run the detectors on the last transaction of a
\* block: one result is detected at exactly 0.5 and submitted nothing,
\* earlier results have submitted alerts of the severities Low and High
C13_Witness ==
    /\ detector = "block pipeline"
    /\ tx_pos > Len(contexts)
    /\ \E d \in DOMAIN detections :
          /\ detections[d].detected /\ detections[d].confidence = 500
          /\ \A i \in DOMAIN submitted :
                submitted[i].alert.transaction_hash
                    = contexts[Len(contexts)].transaction.hash
                => submitted[i].detector # d
    /\ \E i, j \in DOMAIN submitted :
          /\ submitted[i].path = "block" /\ submitted[i].alert.severity = Low
          /\ submitted[j].path = "block" /\ submitted[j].alert.severity = High

\* -------------------------------------------- claims: the detectors
\* the detector of the state has analysed its input
Analysed == detections # << >>

\* C14: for every context or batch and every detector, the confidence of
\* every result lies in [0, 1], and a result is detected only when its
\* confidence meets the floor of the detector: at least 0.3 for the
\* FlashLoanDetector, at least 0.4 for the FrontRunningDetector, at least
\* 0.5 for MevDetector::analyze_batch, above 0.5 for the others.
C14_ConfidenceAndFloors ==
    \A i \in DOMAIN detections :
        LET r == detections[i]
        IN /\ r.confidence >= 0 /\ r.confidence <= 1000
           /\ r.detected =>
                 CASE detector = "FlashLoanDetector" -> r.confidence >= 300
                   [] detector = "FrontRunningDetector" -> r.confidence >= 400
                   [] detector = "MevDetector" -> r.confidence >= 500
                   [] OTHER -> r.confidence > 500

\* C14 as stated: the floor of the MevDetector is above 0.5 as well
C14_FloorsAsStated ==
    \A i \in DOMAIN detections :
        LET r == detections[i]
        IN /\ r.confidence >= 0 /\ r.confidence <= 1000
           /\ r.detected =>
                 CASE detector = "FlashLoanDetector" -> r.confidence >= 300
                   [] detector = "FrontRunningDetector" -> r.confidence >= 400
                   [] OTHER -> r.confidence > 500

\* MevDetector::analyze_batch has returned a detected result of
\* confidence 0.5 for a batch that is ordered by index
C14_Witness ==
    /\ detector = "MevDetector"
    /\ \A i \in 1..(Len(contexts) - 1) :
          contexts[i].transaction.index < contexts[i + 1].transaction.index
    /\ \E i \in DOMAIN detections :
          detections[i].detected /\ detections[i].confidence = 500

\* a borrow event: its name contains "borrow" or "loan", case-insensitively
BorrowLike(e) ==
    Contains(Lower(e.event_name), "borrow") \/ Contains(Lower(e.event_name), "loan")

\* a change of more than 50% magnitude: old and new value of equal length
\* whose numbers differ by more than 1.5 times in one of the directions
LargeMagnitude(sc) ==
    /\ IsSome(sc.old_value) /\ IsSome(sc.new_value)
    /\ Len(Unwrap(sc.old_value)) = Len(Unwrap(sc.new_value))
    /\ Unwrap(sc.old_value) # << >>
    /\ LET old_num == bytes_to_u64(Unwrap(sc.old_value))
           new_num == bytes_to_u64(Unwrap(sc.new_value))
       IN 2 * new_num > 3 * old_num \/ 2 * old_num > 3 * new_num

\* C15: the FlashLoanDetector returns detected = true, the pattern FlashLoan
\* and a confidence of at least 0.8 for every context whose events contain
\* a borrow event, a repay event and at least two DEX-like events and whose
\* state changes contain a change of more than 50% magnitude.
C15_FlashLoanPattern ==
    detector = "FlashLoanDetector" /\ Analysed =>
        \A i \in DOMAIN contexts :
            LET ctx == contexts[i]
            IN /\ \E j \in DOMAIN ctx.events : BorrowLike(ctx.events[j])
               /\ \E j \in DOMAIN ctx.events : NameHasRepay(ctx.events[j])
               /\ Cardinality({n \in DOMAIN ctx.events :
                                  IsDexEvent(ctx.events[n])}) >= 2
               /\ \E j \in DOMAIN ctx.state_changes :
                      LargeMagnitude(ctx.state_changes[j])
               => /\ detections[i].detected
                  /\ detections[i].pattern = "FlashLoan"
                  /\ detections[i].confidence >= 800

\* C16: the FlashLoanDetector returns detected = false and confidence 0 for
\* a context without a borrow event, whatever its swaps, repayments and
\* state changes, and detected = false and a confidence below 0.3 for a
\* context with a borrow event and no repay event, whatever its DEX events
\* and state changes.  The first half is stated for the contexts without
\* an event name containing "borrow", the second for those with a name
\* containing "borrow" or "loan": the widest reading of each half.
C16_NoBorrowNoRepay ==
    detector = "FlashLoanDetector" /\ Analysed =>
        \A i \in DOMAIN contexts :
            LET ctx == contexts[i]
                borrow == \E j \in DOMAIN ctx.events :
                              Contains(Lower(ctx.events[j].event_name), "borrow")
                repay == \E j \in DOMAIN ctx.events :
                             \/ Contains(Lower(ctx.events[j].event_name), "repay")
                             \/ Contains(Lower(ctx.events[j].event_name), "repaid")
            IN /\ ~borrow => /\ ~detections[i].detected
                             /\ detections[i].confidence = 0
               /\ (\E j \in DOMAIN ctx.events : BorrowLike(ctx.events[j]))
                     /\ ~repay => /\ ~detections[i].detected
                                  /\ detections[i].confidence < 300

\* the detector has analysed a context with repayments, swaps, a large state
\* change and no borrow event, or one with a borrow event, swaps, a large
\* state change and no repay event
C16_Witness ==
    /\ detector = "FlashLoanDetector" /\ Analysed
    /\ LET ctx == contexts[1]
           names == {ctx.events[j].event_name : j \in DOMAIN ctx.events}
       IN /\ Cardinality({n \in DOMAIN ctx.events :
                             IsDexEvent(ctx.events[n])}) >= 2
          /\ count_large_balance_changes(ctx.state_changes) > 0
          /\ \/ "Repaid" \in names /\ "Borrowed" \notin names
             \/ "Borrowed" \in names /\ "Repaid" \notin names

\* the contexts of the state are ordered by the index of their transactions
OrderedByIndex ==
    \A i \in 1..(Len(contexts) - 1) :
        contexts[i].transaction.index < contexts[i + 1].transaction.index

\* DEX-like: the pallet or the call names a DEX operation
DexLike(tx) ==
    \/ Contains(Lower(tx.pallet), "dex")
    \/ \E w \in {"swap", "trade", "exchange"} : Contains(Lower(tx.call), w)

\* C17: for a batch ordered by index, MevDetector::analyze_batch reports the
\* window (i, i+1, i+2) as Sandwich if and only if the callers of i and i+2
\* are the same, the caller of i+1 is another one, the three are DEX-like
\* and the indices are sequential or each gap is at most 3; the three
\* results of such a window are detected with a confidence of at least 0.7
\* (callers A, B, A at 10, 11, 12), and callers A, A, A give no Sandwich.
C17_SandwichWindows ==
    detector = "MevDetector" /\ Analysed /\ OrderedByIndex =>
        \A i \in 1..(Len(contexts) - 2) :
            LET before == contexts[i].transaction
                middle == contexts[i + 1].transaction
                after == contexts[i + 2].transaction
                sandwich ==
                    /\ before.caller = after.caller
                    /\ middle.caller # before.caller
                    /\ DexLike(before) /\ DexLike(middle) /\ DexLike(after)
                    /\ \/ /\ middle.index = before.index + 1
                          /\ after.index = middle.index + 1
                       \/ /\ middle.index - before.index <= 3
                          /\ after.index - middle.index <= 3
                reported ==
                    \A k \in {i, i + 1, i + 2} :
                        /\ detections[k].detected
                        /\ detections[k].pattern = "Sandwich"
                        /\ detections[k].confidence >= 700
            IN reported <=> sandwich

\* C18: for every batch of two contexts whose callers differ, whose calls
\* differ and whose indices are not adjacent, MevDetector::analyze_batch
\* returns no result of pattern Mev or Sandwich, whatever the state changes,
\* and the positions no pass claims yield no_detection().
C18_UnrelatedPairNotFlagged ==
    detector = "MevDetector" /\ Analysed /\ Len(contexts) = 2 =>
        LET first == contexts[1].transaction
            second == contexts[2].transaction
        IN /\ first.caller # second.caller
           /\ first.call # second.call
           /\ second.index # first.index + 1
           /\ first.index # second.index + 1
           => \A k \in DOMAIN detections :
                 /\ detections[k].pattern \notin {"Mev", "Sandwich"}
                 /\ detections[k] = [detected |-> FALSE, confidence |-> 0,
                                     pattern |-> "Unknown"]

\* analyze_batch has returned for a transfer that moves a storage value,
\* followed two indices later by a swap of another caller
C18_Witness ==
    /\ detector = "MevDetector" /\ Analysed /\ Len(contexts) = 2
    /\ contexts[1].transaction.caller # contexts[2].transaction.caller
    /\ contexts[1].transaction.call = "transfer"
    /\ contexts[2].transaction.call = "swap"
    /\ contexts[2].transaction.index = contexts[1].transaction.index + 2
    /\ \E j \in DOMAIN contexts[1].state_changes :
          is_large_state_change(contexts[1].state_changes[j])

\* ------------------------------ claims: the block pipeline, continued
\* the subscription has processed every transaction of the block it received
BlockProcessed == blocks_processed > 0 /\ tx_pos > Len(contexts)

\* C19: the block pipeline hands the window of contexts of the block to the
\* cross-transaction detectors: once a block with three consecutive DEX-like
\* transactions of the callers A, B, A at sequential indices is processed,
\* the pipeline has submitted a Sandwich alert for it.
C19_SandwichAlertForBlock ==
    BlockProcessed =>
        \A i \in 1..(Len(contexts) - 2) :
            LET before == contexts[i].transaction
                middle == contexts[i + 1].transaction
                after == contexts[i + 2].transaction
            IN /\ before.caller = after.caller
               /\ middle.caller # before.caller
               /\ DexLike(before) /\ DexLike(middle) /\ DexLike(after)
               /\ middle.index = before.index + 1
               /\ after.index = middle.index + 1
               => \E k \in DOMAIN submitted :
                     /\ submitted[k].path = "block"
                     /\ submitted[k].alert.pattern = "Sandwich"
                     /\ submitted[k].alert.transaction_hash
                           \in {before.hash, middle.hash, after.hash}

\* C20: the id of every alert submitted to the AlertManager differs from the
\* id of every other alert ever submitted, in the block pipeline and in the
\* MempoolMonitor, also when several detectors fire on one transaction.
C20_AlertIdsUnique ==
    \A i, j \in DOMAIN submitted :
        i # j => submitted[i].alert.id # submitted[j].alert.id

\* ----------------------------------- claims: the detectors, continued
\* a new FrontRunningDetector has analysed the two contexts of the state,
\* one after the other
AnalysedPair ==
    /\ detector = "FrontRunningDetector" /\ Analysed
    /\ Len(contexts) = 2
    /\ recent_transactions = <<contexts[1].transaction, contexts[2].transaction>>

\* C21: after the FrontRunningDetector has analysed a transaction of caller
\* X that calls pallet P and call C, it returns detected = true with a
\* confidence of at least 0.4 for another transaction with the same P and C
\* of another caller Y, and detected = false for a following transaction
\* with another call.
C21_DuplicateCallDetected ==
    AnalysedPair =>
        LET first == contexts[1].transaction
            second == contexts[2].transaction
        IN /\ /\ second.pallet = first.pallet /\ second.call = first.call
              /\ second.caller # first.caller /\ second.hash # first.hash
              => /\ detections[2].detected
                 /\ detections[2].confidence >= 400
           /\ second.call # first.call => ~detections[2].detected

\* -------------------------------- claims: ConnectionManager, continued
\* C22: in connect_with_retry(max_attempts), after the k-th consecutive
\* failure with k < max_attempts the call sleeps exactly min(2^k, 60)
\* seconds before the next attempt, a delay between 2 and 60 seconds for
\* every k, and after the failure that exhausts max_attempts it does not
\* sleep.
C22_BackoffDelays ==
    [][\A t \in Threads :
          pc[t] = "retry_record" /\ pc'[t] # "retry_record" =>
              LET k == attempt[t] + 1
              IN IF k < max_attempts[t]
                 THEN /\ pc'[t] = "retry_sleep"
                      /\ backoff_secs'[t] = PowMin(2, k, 60)
                      /\ backoff_secs'[t] >= 2 /\ backoff_secs'[t] <= 60
                 ELSE /\ pc'[t] # "retry_sleep"
                      /\ backoff_secs'[t] = 0]_vars

\* -------------------------------------- claims: the engine, continued
\* the subscription task k receives a block from its stream
Delivered(k) == pc[k] = "next" /\ pc'[k] = "extract"

\* the subscription task k gets the answer of extract_from_block
Extracted(k) == pc[k] = "extract" /\ pc'[k] # "extract"

C24_StatsSumToAlerts == ReportedDetections = alerts_triggered

\* C25: every path that turns a DetectionResult into an Alert, the block
\* pipeline and MempoolMonitor.analyze_transaction alike, gives the alert
\* the severity of the fixed thresholds: Critical from 0.9, High from 0.75,
\* Medium from 0.6, Low below.
C25_OneSeverityMapping ==
    [][\A i \in DOMAIN NewSubmitted :
          LET e == NewSubmitted[i]
              conf == detections'[e.detector].confidence
          IN /\ e.path \in {"block", "mempool"}
             /\ e.alert.severity = (IF conf >= 900 THEN Critical
                                    ELSE IF conf >= 750 THEN High
                                    ELSE IF conf >= 600 THEN Medium
                                    ELSE Low)]_vars

\* C26: for each transaction of a processed block, the context handed to
\* the detectors contains exactly the events of the block whose extrinsic
\* index is the index of the transaction, in emission order; events
\* without an extrinsic index are in no context.
C26_ContextHasItsEvents ==
    \A i \in DOMAIN contexts :
        i < tx_pos =>
            contexts[i] = create_context(contexts[i].transaction, block_events)

\* ------------------------------ claims: FlashLoanDetector, continued
\* the indicators of the first context of the state
LoanIndicators == FlashLoanAnalyzeEvents(contexts[1])

\* the result of the detector is the one of a confidence of `stated`
\* thousandths: detected with that confidence and the pattern FlashLoan
\* exactly when it is at least 0.3
ResultOf(stated) ==
    /\ FlashLoanConfidence(LoanIndicators) = stated
    /\ detections[1].detected <=> stated >= 300
    /\ detections[1].detected =>
          detections[1].confidence = stated /\ detections[1].pattern = "FlashLoan"

\* C27 as stated: the confidence is 0 with no borrow, 0.2 with a borrow and
\* no repay, and with both min(1.0, 0.5 + 0.15 * min(dex_count, 4) / 2
\* + 0.2 for a large balance change + 0.1 for more than two lending
\* interactions) for every dex_count; detected exactly from 0.3.
C27_ConfidenceAsStated ==
    detector = "FlashLoanDetector" /\ Analysed =>
        LET ind == LoanIndicators
        IN ResultOf(IF ~ind.has_borrow THEN 0
                    ELSE IF ~ind.has_repay THEN 200
                    ELSE Min(1000,
                             500 + (150 * Min(ind.dex_interaction_count, 4)) \div 2
                                 + (IF ind.large_balance_changes > 0 THEN 200 ELSE 0)
                                 + (IF ind.lending_protocol_interactions > 2
                                    THEN 100 ELSE 0)))

\* C27, amended: as above, the term 0.15 * min(dex_count, 4) / 2 being added
\* only when dex_count is at least 2 (one DEX interaction adds nothing).
C27_FlashLoanConfidence ==
    detector = "FlashLoanDetector" /\ Analysed =>
        LET ind == LoanIndicators
            dex == IF ind.dex_interaction_count >= 2
                   THEN (150 * Min(ind.dex_interaction_count, 4)) \div 2
                   ELSE 0
        IN ResultOf(IF ~ind.has_borrow THEN 0
                    ELSE IF ~ind.has_repay THEN 200
                    ELSE Min(1000,
                             500 + dex
                                 + (IF ind.large_balance_changes > 0 THEN 200 ELSE 0)
                                 + (IF ind.lending_protocol_interactions > 2
                                    THEN 100 ELSE 0)))

\* the detector has analysed a borrow and a repayment with exactly one DEX
\* interaction, two lending interactions and no large balance change, and
\* reports 0.5
C27_Witness ==
    /\ detector = "FlashLoanDetector" /\ Analysed
    /\ LoanIndicators.has_borrow /\ LoanIndicators.has_repay
    /\ LoanIndicators.dex_interaction_count = 1
    /\ LoanIndicators.lending_protocol_interactions = 2
    /\ detections[1].detected /\ detections[1].confidence = 500

\* C28: a state change counts as one large balance change exactly when its
\* old and new value are both present, of equal byte length, and their
\* numbers (big-endian, last 8 bytes, zero-padded) differ by a factor of
\* more than 1.5 in one of the directions; a pair with a missing value or
\* with different lengths never counts.
C28_LargeBalanceChanges ==
    detector = "FlashLoanDetector" /\ Analysed =>
        LET scs == contexts[1].state_changes
        IN LoanIndicators.large_balance_changes
              = Cardinality({j \in DOMAIN scs : LargeMagnitude(scs[j])})

\* ------------------------------------ claims: MevDetector, continued
\* C29: each sandwich triple detected by analyze_batch has the confidence
\* 0.7, plus 0.15 when its three indices are sequential, plus 0.1 when the
\* nonce of the attacker at i+2 is its nonce at i plus 1, capped at 1.0, and
\* the results of its three positions carry the pattern Sandwich with that
\* confidence, also when sandwich windows overlap.  (The evidence is not
\* part of the results of the model.)
C29_SandwichTriples ==
    detector = "MevDetector" /\ Analysed =>
        \A i \in 1..(Len(contexts) - 2) :
            LET before == contexts[i].transaction
                middle == contexts[i + 1].transaction
                after == contexts[i + 2].transaction
                sequential == /\ middle.index = before.index + 1
                              /\ after.index = middle.index + 1
                nonces == /\ IsSome(before.nonce) /\ IsSome(after.nonce)
                          /\ Unwrap(after.nonce) = Unwrap(before.nonce) + 1
                stated == Min(1000, 700 + (IF sequential THEN 150 ELSE 0)
                                        + (IF nonces THEN 100 ELSE 0))
            IN SandwichWindow(before, middle, after) =>
                  \A k \in {i, i + 1, i + 2} :
                      /\ detections[k].detected
                      /\ detections[k].pattern = "Sandwich"
                      /\ detections[k].confidence = stated

\* C30: in MevDetector::analyze_batch a later pass never overrides an
\* earlier one: a position the sandwich pass has marked is reported as
\* Sandwich (not as FrontRunning or Mev), and a position the front-running
\* pass has marked is reported as FrontRunning (not as Mev).
C30_PassesDoNotOverride ==
    detector = "MevDetector" /\ Analysed =>
        LET first == detect_sandwich_attacks(contexts, 1,
                         [i \in DOMAIN contexts |-> NoIndicators])
            second == detect_frontrunning(contexts, 1, first)
        IN \A i \in DOMAIN contexts :
              /\ first[i].present =>
                    detections[i].detected /\ detections[i].pattern = "Sandwich"
              /\ second[i].present /\ second[i].is_frontrunning =>
                    /\ detections[i].detected
                    /\ detections[i].pattern = "FrontRunning"

\* C31: front-running pass of MevDetector: for each adjacent pair (i, i+1)
\* whose position i the sandwich pass has not claimed, position i is
\* reported FrontRunning if and only if the two transactions have the same
\* pallet and call, different callers and an index gap of at most 2; the
\* confidence is then 0.5, plus 0.25 if the second failed while the first
\* succeeded, plus 0.1 if the indices are adjacent.
C31_FrontRunningPass ==
    detector = "MevDetector" /\ Analysed =>
        LET first == detect_sandwich_attacks(contexts, 1,
                         [i \in DOMAIN contexts |-> NoIndicators])
        IN \A i \in 1..(Len(contexts) - 1) :
              LET current == contexts[i].transaction
                  next == contexts[i + 1].transaction
                  pair == /\ current.pallet = next.pallet
                          /\ current.call = next.call
                          /\ current.caller # next.caller
                          /\ next.index - current.index <= 2
                  stated == 500 + (IF ~next.success /\ current.success
                                   THEN 250 ELSE 0)
                                + (IF next.index = current.index + 1
                                   THEN 100 ELSE 0)
              IN ~first[i].present =>
                    /\ detections[i].pattern = "FrontRunning" <=> pair
                    /\ pair => /\ detections[i].detected
                               /\ detections[i].confidence = stated

\* C32: CrossChainBridgeDetector: when at least one bridge request or
\* response is observed, the confidence is the minimum of 1.0 and the sum
\* of 0.6 if some commitment value appears at least twice in the events of
\* the transaction, 0.2 if requests > 3, 0.15 if distinct destinations > 1,
\* 0.15 if there is a balance-like state change and requests > 1, and 0.1
\* if requests > 0 and responses = 0; detected holds iff confidence > 0.5,
\* and with no request and no response the result is not detected.
C32_BridgeConfidence ==
    /\ detector = "Cross-Chain Bridge Detector"
    /\ indicators = NotExtracted /\ Analysed
    => LET es == contexts[1].events
           bridge == {i \in DOMAIN es :
                         \/ Contains(Lower(es[i].pallet), "ismp")
                         \/ Contains(Lower(es[i].pallet), "hyperbridge")}
           requests == Cardinality({i \in bridge :
                           Contains(Lower(es[i].event_name), "request")})
           responses == Cardinality({i \in bridge :
                            Contains(Lower(es[i].event_name), "response")})
           repeated == \E i, j \in bridge :
                          /\ i # j /\ es[i].commitment # NoValue
                          /\ es[i].commitment = es[j].commitment
           dests == {es[i].dest : i \in {j \in bridge : es[j].dest # NoValue}}
           balance == \E k \in DOMAIN contexts[1].state_changes :
                         Contains(contexts[1].state_changes[k].key, "Balance")
           stated == Min((IF repeated THEN 600 ELSE 0)
                         + (IF requests > 3 THEN 200 ELSE 0)
                         + (IF Cardinality(dests) > 1 THEN 150 ELSE 0)
                         + (IF balance /\ requests > 1 THEN 150 ELSE 0)
                         + (IF requests > 0 /\ responses = 0 THEN 100 ELSE 0),
                         1000)
       IN IF requests = 0 /\ responses = 0
          THEN ~detections[1].detected
          ELSE /\ detections[1].confidence = stated
               /\ detections[1].detected <=> stated > 500

\* C33: the recent-transaction history of the FrontRunningDetector never
\* holds more than 100 transactions; when it is full, adding a transaction
\* evicts the oldest entry first and the new transaction becomes the newest
\* entry, under every interleaving of concurrent analyze_transaction calls.
C33_HistoryBounded ==
    [][/\ Len(recent_transactions) <= HistoryCap
       /\ Len(recent_transactions') <= HistoryCap
       /\ \A t \in Threads :
             history_calls[t].pc = "removed" /\ history_calls'[t].pc = "read_await"
                 => LET found == history_calls[t].found
                    IN recent_transactions' =
                          Append(IF Len(found) = HistoryCap
                                 THEN Tail(found) ELSE found,
                                 history_calls[t].tx)]_vars

\* a call has added its transaction to a full history while another call
\* waits for the write guard
C33_Witness ==
    \E t, u \in Threads :
        /\ history_calls[t].pc = "read_await"
        /\ Len(history_calls[t].found) = HistoryCap
        /\ Len(recent_transactions) = HistoryCap
        /\ recent_transactions[HistoryCap] = history_calls[t].tx
        /\ recent_transactions[1] = history_calls[t].found[2]
        /\ history_calls[u].pc = "write_await"

\* C34: extract_from_block: a failure to parse or decode one extrinsic
\* skips only that extrinsic; all other extrinsics of the block are still
\* returned, in block order, each with index equal to its position in the
\* block, and the call succeeds.
C34_FailuresSkipOne ==
    extraction.result # << >> =>
        LET exts == extraction.extrinsics
            good == {i \in DOMAIN exts : exts[i].kind = "ok"}
            txs == extraction.result[1].transactions
        IN /\ extraction.result[1].ok
           /\ Len(txs) = Cardinality(good)
           /\ \A i \in good :
                 \E k \in DOMAIN txs :
                    /\ txs[k] = [exts[i].tx EXCEPT !.index = i - 1, !.hash = i]
                    /\ k = Cardinality({j \in good : j <= i})

\* C35: the alerts submitted and the counter values (blocks_processed,
\* transactions_analyzed, alerts_triggered, per-detector counters) produced
\* for a block stream are the same whether persistence is absent, present,
\* or present and failing on every insert, and a persistence failure never
\* stops the processing of a transaction or block: whatever the database,
\* every step of the pipeline leaves the alerts and the counters that the
\* block stream alone determines.
C35_PersistenceIndependent ==
    [][/\ tx_pos' = tx_pos + 1 =>
             LET tx == contexts[tx_pos].transaction
                 rs == RunDetectors(add_to_history(recent_transactions, tx),
                                    ContextOf(tx))
                 new == BlockAlerts(rs, 1, tx, uuids)
             IN /\ submitted' = submitted \o new
                /\ alerts_triggered' = alerts_triggered + Len(new)
                /\ detector_stats' = StatsAfter(detector_stats, rs)
                /\ alert_history' = TriggerAll(alert_history, new)
                /\ detections' = rs
                /\ UNCHANGED <<blocks_processed, transactions_analyzed>>
       /\ blocks_processed' # blocks_processed =>
             /\ blocks_processed' = blocks_processed + 1
             /\ transactions_analyzed' = transactions_analyzed + Len(contexts')
             /\ UNCHANGED <<alerts_triggered, detector_stats, submitted>>
      ]_vars

\* a transaction was processed and reported while every insert failed
C35_Witness ==
    /\ database.client = Some /\ database.failing
    /\ detector = "block pipeline" /\ tx_pos > 1
    /\ submitted # << >> /\ alerts_triggered > 0
    /\ database.transactions = 0

\* C36: in every state observable through get_stats() while the block
\* subscription runs, transactions_analyzed >= blocks_processed (every
\* finalized block containing at least one extrinsic).
C36_TransactionsCoverBlocks ==
    (\E k \in Tasks : pc[k] \in {"next", "extract", "process"})
        => transactions_analyzed >= blocks_processed

\* reported detections that process_transaction has counted and whose
\* alert it has not handed to trigger_alert yet
CountedNotTriggered == Cardinality({k \in Tasks : pc[k] = "trigger"})

BothReturned ==
    /\ \A t \in Threads : pc[t] = "idle"
    /\ \E t, u \in Threads : t # u /\ prev[t] = "start" /\ prev[u] = "stop"
    /\ ~stopped

\* C38: if stop() runs while a start() call is still connecting, then once
\* both calls have returned either is_running is true with a stored client
\* (and the subscription it started), or is_running is false with no
\* stored client and no active subscription task; a stopped engine never
\* keeps a live client or a running subscription.
C38_ConsistentAfterRace ==
    BothReturned =>
        \/ is_running /\ client = Some
        \/ /\ ~is_running /\ client = None
           /\ \A k \in Tasks : pc[k] = "unspawned"
           /\ event_tasks = 0

\* C39: at any time at most one block-subscription task is active for an
\* engine, including after stop() followed by a successful start(), so
\* that each finalized block delivered by the node increases
\* blocks_processed by one and never by two.
C39_OneSubscription ==
    Cardinality({k \in RestartTasks : pc[k] # "unspawned"}) <= 1

\* C40: whenever start() returns an error other than the already-running
\* ConfigError, including a "Not connected to node" failure while starting
\* block or event monitoring after a successful connect, the running flag
\* is false afterwards, so that a later start() is not rejected as already
\* running.
C40_ErrorLeavesStopped ==
    [][\A t \in Threads :
          Returns(t, "start") /\ result'[t] \notin {"Ok", "ConfigError"}
              => ~is_running']_vars

====
